---- MODULE Spec2Model ----
(***************************************************************************)
(* Model of the ETL-Ender-Turing sync pipeline (ET-ETL-DWH-PY312):         *)
(*   ETL/Load.py      load2db: the per-row upsert inside one SessionContext *)
(*   ETL/utils.py     SessionContext, get_unique_constraint_columns,        *)
(*                    file2dt / dt2file                                     *)
(*   ETL/schema.py    the target tables and their keys                      *)
(*   run-et-etl.py    the orchestration of one run                          *)
(*                                                                         *)
(* Values are integers.  NULL stands for Python None / SQL NULL.  Text      *)
(* columns carry small integers standing for distinct strings.              *)
(***************************************************************************)
EXTENDS Integers, Sequences, FiniteSets, TLC

\* ------------------------------------------------------------------------
\* Bounds of the model
\* ------------------------------------------------------------------------
MaxRows == 2

MaxLoads == 2

MaxRuns == 2

\* Days a directly given window may span
MaxSpan == 3

\* page_limit of get_et_sessions, scaled down from 500 (200 in test mode)
PageLimit == 2

\* Full pages the upstream returns for one window before a short one
MaxPages == 2

\* Sessions handed to the per-record enrichment
MaxSessions == 2

\* Resolution of a raw timestamp: ticks in one second
TicksPerSecond == 4

\* Elements of one nested collection (categories of a scorecard, points of a category)
MaxChildren == 3

\* Instants at which the upstream changes a category or a checkpoint is written
MaxClock == 4

\* Records the upstream holds for one window
MaxMatching == 5

\* Users one /users response holds
MaxUsers == 2

\* ------------------------------------------------------------------------
\* Target schema (ETL/schema.py)
\* ------------------------------------------------------------------------
NULL == 0

\* Base.__subclasses__() in declaration order, restricted to four tables
\* that cover the key shapes of the schema.
Tables == <<"categories", "scorecard_categories", "sessions", "sessions_summaries">>

TableSet == {Tables[i] : i \in 1..Len(Tables)}

get_columns(t) ==
    CASE t = "categories"           -> {"id", "name", "position", "updated_at"}
      [] t = "scorecard_categories" -> {"id", "scorecard_id", "name"}
      [] t = "sessions"             -> {"id", "type"}
      [] t = "sessions_summaries"   -> {"id", "session_id", "text"}

get_primary_key_columns(t) == <<"id">>

\* Every declared table, in declaration order: get_subclasses(Base)
DeclaredTables ==
    <<"agents", "scorecards", "groups", "agent_group_associations", "users", "categories",
      "labels", "category_labels", "scorecard_categories", "scorecard_points", "tags",
      "tag_labels", "sessions", "sessions_categories", "sessions_crm_statuses",
      "sessions_reviewers", "sessions_scores", "sessions_tags", "sessions_comments",
      "sessions_summaries">>

\* The tables the ForeignKey columns of table t point to
ForeignKeys(t) ==
    CASE t = "groups"                   -> {"scorecards"}
      [] t = "agent_group_associations" -> {"groups", "agents"}
      [] t = "users"                    -> {"agents", "groups"}
      [] t = "category_labels"          -> {"categories", "labels"}
      [] t = "scorecard_categories"     -> {"scorecards"}
      [] t = "scorecard_points"         -> {"scorecards", "scorecard_categories"}
      [] t = "tags"                     -> {"groups"}
      [] t = "tag_labels"               -> {"tags", "labels"}
      [] t = "sessions"                 -> {"agents", "groups"}
      [] t = "sessions_categories"      -> {"sessions", "categories"}
      [] t = "sessions_crm_statuses"    -> {"sessions"}
      [] t = "sessions_reviewers"       -> {"sessions", "users"}
      [] t = "sessions_scores"          -> {"sessions", "scorecards", "users", "scorecard_points"}
      [] t = "sessions_tags"            -> {"sessions", "tags"}
      [] t = "sessions_comments"        -> {"sessions", "users"}
      [] t = "sessions_summaries"       -> {"sessions"}
      [] OTHER                          -> {}

\* Position of table t in the loop `for db_model in db_models`
LoopPosition(t) == CHOOSE i \in DOMAIN DeclaredTables : DeclaredTables[i] = t

UniqueConstraints(t) ==
    CASE t = "categories"           -> <<"id">>
      [] t = "scorecard_categories" -> <<"id", "scorecard_id">>
      [] t = "sessions"             -> <<"id">>
      [] t = "sessions_summaries"   -> <<"session_id">>

get_unique_constraint_columns(t) ==
    IF UniqueConstraints(t) # <<>> THEN UniqueConstraints(t)
    ELSE get_primary_key_columns(t)

SeqToSet(s) == {s[i] : i \in 1..Len(s)}

KeyCols(t) == SeqToSet(get_unique_constraint_columns(t))

\* Column(Integer, primary_key=True): the database fills the key in when the
\* statement gives none.  The UNIQUEIDENTIFIER key of sessions is NOT NULL
\* without a default.
IntegerPK(t) == t # "sessions"

\* ------------------------------------------------------------------------
\* The database: tables are sets of full rows (every column, NULL if unset)
\* ------------------------------------------------------------------------
EmptyStore == [t \in TableSet |-> {}]

SetMax(S) == CHOOSE m \in S : \A x \in S : x <= m

NextId(rows) == IF rows = {} THEN 1 ELSE SetMax({r["id"] : r \in rows}) + 1

\* Two rows collide on a unique constraint.  SQLite treats NULLs as distinct
\* from each other; SQL Server treats them as equal.
UcCollide(dialect, t, r, s) ==
    \A c \in SeqToSet(UniqueConstraints(t)) :
        /\ r[c] = s[c]
        /\ (dialect = "sqlite" => r[c] # NULL)

PkCollide(r, s) == r["id"] = s["id"]

\* INSERT of the given column values.  Result: [err, rows].  A value for a
\* column the table does not have cannot be compiled into the statement.
DbInsert(dialect, t, rows, item) ==
    LET pkGiven == "id" \in DOMAIN item /\ item["id"] # NULL
        full == [c \in get_columns(t) |->
                    IF c = "id" /\ ~pkGiven THEN NextId(rows)
                    ELSE IF c \in DOMAIN item THEN item[c] ELSE NULL]
    IN  IF ~(DOMAIN item \subseteq get_columns(t))
        THEN [err |-> "compile", rows |-> rows]       \* Unconsumed column names
        ELSE IF ~pkGiven /\ ~IntegerPK(t)
        THEN [err |-> "integrity", rows |-> rows]     \* NOT NULL constraint
        ELSE IF \E r \in rows : PkCollide(r, full) \/ UcCollide(dialect, t, r, full)
        THEN [err |-> "integrity", rows |-> rows]     \* PRIMARY KEY / UNIQUE constraint
        ELSE [err |-> "none", rows |-> rows \cup {full}]

\* UPDATE ... SET values on the rows of `hit`.  Result: [err, rows].
DbUpdate(dialect, t, rows, hit, values) ==
    LET upd(r) == [c \in get_columns(t) |->
                      IF c \in DOMAIN values THEN values[c] ELSE r[c]]
        rest == rows \ hit
        new  == {upd(r) : r \in hit}
    IN  IF ~(DOMAIN values \subseteq get_columns(t))
        THEN [err |-> "compile", rows |-> rows]       \* Unconsumed column names
        ELSE IF
           \/ Cardinality(new) # Cardinality(hit)
           \/ \E r \in new : \E s \in rest :
                 PkCollide(r, s) \/ UcCollide(dialect, t, r, s)
           \/ ("id" \in DOMAIN values /\ values["id"] = NULL)
        THEN [err |-> "integrity", rows |-> rows]
        ELSE [err |-> "none", rows |-> rest \cup new]

\* SQLite accepts ON CONFLICT (columns) only when the columns are the rowid
\* alone or a unique index that does not hold the rowid; the rowid is the
\* Integer primary key.  Otherwise the statement raises OperationalError.
SqliteConflictTargetOk(t) ==
    LET uc == KeyCols(t)
    IN  uc = {"id"} \/ ~(IntegerPK(t) /\ "id" \in uc)

\* ------------------------------------------------------------------------
\* load2db, one row (ETL/Load.py 109-161)
\* ------------------------------------------------------------------------
Restrict(f, S) == [c \in (DOMAIN f) \cap S |-> f[c]]

\* Variant: the item is written with every key it has
filtered_item_whole(t, item) == item

filtered_item(t, item) == Restrict(item, get_columns(t))

\* Variant: on conflict the stored row is replaced by the incoming row
\* (INSERT OR REPLACE), so columns the row does not supply become NULL.
SqliteUpsertReplace(t, rows, item) ==
    LET fi == filtered_item(t, item)
        uc == KeyCols(t)
        conflict == {r \in rows : \A c \in uc :
                        c \in DOMAIN fi /\ fi[c] # NULL /\ r[c] = fi[c]}
        whole == [c \in get_columns(t) \ {"id"} |-> IF c \in DOMAIN fi THEN fi[c] ELSE NULL]
    IN  IF ~SqliteConflictTargetOk(t)
        THEN [err |-> "operational", rows |-> rows]
        ELSE IF conflict # {}
        THEN DbUpdate("sqlite", t, rows, conflict, whole)
        ELSE DbInsert("sqlite", t, rows, fi)

\* sqlite: INSERT ... ON CONFLICT (unique columns) DO UPDATE SET filtered_item
SqliteUpsert(t, rows, item) ==
    LET fi == filtered_item(t, item)
        uc == KeyCols(t)
        conflict == {r \in rows : \A c \in uc :
                        c \in DOMAIN fi /\ fi[c] # NULL /\ r[c] = fi[c]}
    IN  IF ~SqliteConflictTargetOk(t)
        THEN [err |-> "operational", rows |-> rows]
        ELSE IF conflict # {}
        THEN DbUpdate("sqlite", t, rows, conflict, fi)
        ELSE DbInsert("sqlite", t, rows, fi)

\* mssql: check the key columns, SELECT by key, then UPDATE or INSERT
MssqlUpsert(t, rows, item) ==
    LET fi == filtered_item(t, item)
        unique_columns == KeyCols(t)
        missed_in_loading_data == {c \in unique_columns : c \notin DOMAIN fi}
        existing_record == {r \in rows : \A c \in unique_columns : r[c] = fi[c]}
        update_values == Restrict(fi, (DOMAIN fi) \ unique_columns)
    IN  IF missed_in_loading_data # {}
        THEN [err |-> "missing_key", rows |-> rows]
        ELSE IF existing_record # {}
        THEN IF DOMAIN update_values # {}
             THEN DbUpdate("mssql", t, rows, existing_record, update_values)
             ELSE [err |-> "none", rows |-> rows]
        ELSE DbInsert("mssql", t, rows, fi)

UpsertRow(dialect, t, rows, item) ==
    IF dialect = "sqlite" THEN SqliteUpsert(t, rows, item)
    ELSE MssqlUpsert(t, rows, item)

\* The whole row loop of load2db as a function: rows of every table of
\* et_data, tables in db_models order, stopping at the first failing row.
RECURSIVE ApplyRows(_, _, _, _, _)
ApplyRows(dialect, t, rows, items, i) ==
    IF i > Len(items) THEN [ok |-> TRUE, rows |-> rows]
    ELSE LET r == UpsertRow(dialect, t, rows, items[i])
         IN  IF r.err = "none" THEN ApplyRows(dialect, t, r.rows, items, i + 1)
             ELSE [ok |-> FALSE, rows |-> rows]

RECURSIVE ApplyTables(_, _, _, _)
ApplyTables(dialect, db, data, ti) ==
    IF ti > Len(Tables) THEN [ok |-> TRUE, db |-> db]
    ELSE LET t == Tables[ti]
         IN  IF t \notin DOMAIN data
             THEN ApplyTables(dialect, db, data, ti + 1)
             ELSE LET r == ApplyRows(dialect, t, db[t], data[t], 1)
                  IN  IF r.ok
                      THEN ApplyTables(dialect, [db EXCEPT ![t] = r.rows], data, ti + 1)
                      ELSE [ok |-> FALSE, db |-> db]

\* ------------------------------------------------------------------------
\* Inputs
\* ------------------------------------------------------------------------
\* Candidate incoming rows, as the transform step hands them to the load.
ItemUniverse ==
    { <<"categories", [id |-> 1, name |-> 1, position |-> 1]>>,
      <<"categories", [id |-> 1, name |-> 2]>>,
      <<"categories", [name |-> 1]>>,
      <<"scorecard_categories", [id |-> 1, scorecard_id |-> 1, name |-> 1]>>,
      <<"scorecard_categories", [id |-> 1, scorecard_id |-> 2, name |-> 1]>>,
      <<"sessions_summaries", [session_id |-> 1, text |-> 1]>>,
      <<"sessions_summaries", [session_id |-> NULL, text |-> 1]>> }

SeqsUpTo(S, n) == UNION {[1..k -> S] : k \in 0..n}

RECURSIVE RowsOf(_, _)
RowsOf(t, items) ==
    IF items = <<>> THEN <<>>
    ELSE IF Head(items)[1] = t THEN <<Head(items)[2]>> \o RowsOf(t, Tail(items))
    ELSE RowsOf(t, Tail(items))

\* et_data: row-sets keyed by table name, built from a list of items.
EtDataOf(items) ==
    [t \in {items[i][1] : i \in 1..Len(items)} |-> RowsOf(t, items)]

LoadInputs == {EtDataOf(items) : items \in SeqsUpTo(ItemUniverse, MaxRows) \ {<<>>}}

\* ------------------------------------------------------------------------
\* Dates and windows (ETL/utils.py 41-105, settings.py)
\* ------------------------------------------------------------------------
\* A datetime is a day number and a time of day in minutes.
DT(d, t) == [d |-> d, t |-> t]

DtLeq(a, b) == a.d < b.d \/ (a.d = b.d /\ a.t <= b.t)

\* dt - timedelta(days=n)
MinusDays(a, n) == [a EXCEPT !.d = a.d - n]

incremental_sync_n_days == 30

\* datetime.today() of run n: the daily cron start, shortly after midnight
TodayOf(n) == DT(130 + n, 5)

\* if x: of an argparse string argument
Truthy(x) == x \notin {"None", ""}

\* datetime.strptime(str_dt, "%Y-%m-%d") of the date strings used here:
\* midnight of the day, days counted within 2024
\* any other string raises ValueError: logger.error and exit(-1)
SystemExit == [d |-> -1, t |-> -1]

str2dt(str_dt) ==
    CASE str_dt = "2024-05-01" -> DT(122, 0)
      [] str_dt = "2024-05-02" -> DT(123, 0)
      [] str_dt = "2024-05-03" -> DT(124, 0)
      [] OTHER -> SystemExit

\* Variant: without a stop argument the window ends today
parse_start_stop_dates_today(a_start, a_stop, today_dt) ==
    LET stop  == IF Truthy(a_stop) THEN str2dt(a_stop) ELSE today_dt
        start == IF Truthy(a_start) THEN str2dt(a_start) ELSE stop
    IN  <<start, stop>>

\* Result <<start, stop>>; today_dt is datetime.today(). The stop argument
\* is parsed first; an exit in str2dt ends the process, shown as a pair of
\* SystemExit.
parse_start_stop_dates(a_start, a_stop, today_dt) ==
    LET stop  == IF Truthy(a_stop) THEN str2dt(a_stop) ELSE MinusDays(today_dt, 1)
        start == IF Truthy(a_start) THEN str2dt(a_start) ELSE stop
    IN  IF stop = SystemExit \/ start = SystemExit
        THEN <<SystemExit, SystemExit>>
        ELSE <<start, stop>>

\* The process ended inside parse_start_stop_dates
Exited(w) == w[1] = SystemExit

\* dt2str keeps the day only; a half-day descriptor is the day with the
\* first and last minute of the half.
RECURSIVE half_days_from(_, _)
half_days_from(current_date, stop_dt) ==
    IF DtLeq(current_date, stop_dt)
    THEN << [day |-> current_date.d, from |-> 0,   to |-> 720],
            [day |-> current_date.d, from |-> 721, to |-> 1439] >>
         \o half_days_from([current_date EXCEPT !.d = current_date.d + 1], stop_dt)
    ELSE <<>>

\* Variant: bounds given in the wrong order are put in order first
split_half_days_ordered(start_dt, stop_dt) ==
    IF DtLeq(start_dt, stop_dt) THEN half_days_from(start_dt, stop_dt)
    ELSE half_days_from(stop_dt, start_dt)

split_half_days(start_dt, stop_dt) == half_days_from(start_dt, stop_dt)

\* ------------------------------------------------------------------------
\* State
\* ------------------------------------------------------------------------
VARIABLES
    dialect,        \* settings.DATABASE_URL prefix: "sqlite" or "mssql"
    store,          \* committed content of the warehouse
    tx,             \* content as seen by the open session (uncommitted)
    etData,         \* et_data of the current / last load2db call
    tblIdx,         \* position of the db_models loop
    rowIdx,         \* position of the row loop
    loadState,      \* "none", "open", "returned", "exit", "raised"
    preStore,       \* store when the current / last load2db call was entered
    loadCommitted,  \* the current / last load2db call committed
    reload,         \* this call repeats the data of a committed call made on an empty store
    errs,           \* kinds of error raised so far in this run / load call
    nLoads,         \* load2db calls made by the direct caller
    stage,          \* orchestrator state
    startDt,        \* args.start_dt: "None" or a date
    daily,          \* daily_sync_mode
    incPass,        \* pass of the incremental stage: 0, 1 (manual), 2 (categories)
    checkpoint,     \* content of last_synced.json
    lastSynced,     \* value read by file2dt at the start of the run
    nRuns,          \* runs started; also the clock
    ckptWrites,     \* dt2file calls in this run
    runStore,       \* store when the run started
    dictStore,      \* store when the dictionary load of this run returned
    window,         \* <<start_dt, stop_dt>> of the run
    calls,          \* extract_sessions calls of this run: filters and window
    fetched,        \* number of sessions the last extract_sessions call returned
    baseCats,       \* et_data_base_dicts["categories"] of this run
    argStop,        \* args.stop_dt: "None" or a date
    today,          \* datetime.today() when the arguments are parsed
    splitOf,        \* <<start_dt, stop_dt>> given to split_half_days
    halfDays,       \* result of split_half_days
    wStep,          \* "args", "parsed", "split", "split_any"
    test_mode,      \* settings.test_mode
    fKind,          \* what is fetched: "sessions" (get_et_sessions) or "dicts"
    fPhase,         \* "idle", "request", "returned", "raised"
    wIdx,           \* position of the half-day loop of get_et_sessions
    dictIdx,        \* position in the GETs of extract_base_dicts
    skip,           \* skip of the pending page request
    page_number,    \* page_number of the pending page request
    attempt,        \* attempt number of the pending GET (tenacity)
    waited,         \* seconds slept before the pending attempt
    sessions,       \* sessions accumulated by get_et_sessions
    suffix,         \* endpoint_suffix of the running get_et_session_details, "" if none
    sIdx,           \* position of the loop of get_et_session_details
    requested,      \* detail GETs issued so far: <<endpoint_suffix, session id>>
    logged,         \* "Error loading details" records logged: <<endpoint_suffix, session id>>
    tCol,           \* timestamp column being parsed
    tIn,            \* its raw values
    tOut,           \* outcome of the parse: [err, vals]
    tStep,          \* "raw", "parsed"
    nIn,            \* nested data given to the transform: [kind, data]
    nOut,           \* outcome of the transform: [err, tables]
    writers,        \* the sessions of two runs on one database: [run -> state]
    now,            \* the clock: datetime.now()
    upstream,       \* updated_at of each category as the upstream holds it
    dictsAt,        \* the clock when the current / last run fetched the dictionaries
    syncedAt,       \* dictsAt of the most recent successful daily run before the current run
    matching,       \* records the upstream holds for each requested window
    load_to,        \* args.load_to
    files,          \* the working directory: file name -> content written
    sunk            \* load() calls of this run: the et_data given and the sinks that took it

loadVars == <<store, tx, etData, tblIdx, rowIdx, loadState, preStore, loadCommitted, reload, errs>>

periodVars == <<window, calls, fetched, baseCats>>

runVars == <<stage, startDt, daily, incPass, checkpoint, lastSynced, nRuns, ckptWrites, runStore,
             dictStore, periodVars>>

windowVars == <<argStop, today, splitOf, halfDays, wStep>>

\* State of the window functions, which load2db and the run model leave alone
fetchVars == <<test_mode, fKind, fPhase, wIdx, dictIdx, skip, page_number, attempt, waited, sessions>>

detailVars == <<suffix, sIdx, requested, logged>>

transformVars == <<tCol, tIn, tOut, tStep, nIn, nOut>>

raceVars == <<writers>>

clockVars == <<now, upstream, dictsAt, syncedAt>>

\* State outside the process: the clock and the upstream
sinkVars == <<load_to, files, sunk>>

envVars == <<clockVars, matching, sinkVars>>

auxVars == <<windowVars, fetchVars, detailVars, transformVars, raceVars, envVars>>

vars == <<dialect, loadVars, nLoads, runVars, auxVars>>

\* ------------------------------------------------------------------------
\* load2db (ETL/Load.py 62-182) inside SessionContext (ETL/utils.py 222-239)
\* ------------------------------------------------------------------------
\* First table at or after ti that is in et_data with at least one row.
RECURSIVE SkipFrom(_, _)
SkipFrom(data, ti) ==
    IF ti > Len(Tables) THEN ti
    ELSE IF Tables[ti] \in DOMAIN data /\ Len(data[Tables[ti]]) > 0 THEN ti
    ELSE SkipFrom(data, ti + 1)

CurTable == Tables[tblIdx]

CurItem == etData[CurTable][rowIdx]

\* Variant: the load starts from empty tables (full refresh)
EnterLoadRefresh(data) ==
    /\ etData' = data
    /\ tx' = EmptyStore
    /\ preStore' = store
    /\ tblIdx' = SkipFrom(data, 1)
    /\ rowIdx' = 1
    /\ loadState' = "open"
    /\ loadCommitted' = FALSE
    /\ reload' = (loadCommitted /\ preStore = EmptyStore /\ data = etData)
    /\ UNCHANGED store

\* with SessionContext(SessionDB()) as session: ... first table of the loop
EnterLoad(data) ==
    /\ etData' = data
    /\ tx' = store
    /\ preStore' = store
    /\ tblIdx' = SkipFrom(data, 1)
    /\ rowIdx' = 1
    /\ loadState' = "open"
    /\ loadCommitted' = FALSE
    /\ reload' = (loadCommitted /\ preStore = EmptyStore /\ data = etData)
    /\ UNCHANGED store

\* Variant: the exit path commits what was written so far
RollbackCommits ==
    /\ store' = tx
    /\ tx' = tx

\* Variant: the rollback reaches back to the start of the run
RollbackToRunStart ==
    /\ store' = runStore
    /\ tx' = runStore

\* SessionContext.__exit__ on the rollback branches: rollback, close
Rollback ==
    /\ store' = store
    /\ tx' = store

Advance ==
    IF rowIdx < Len(etData[CurTable])
    THEN /\ rowIdx' = rowIdx + 1
         /\ UNCHANGED tblIdx
    ELSE /\ rowIdx' = 1
         /\ tblIdx' = SkipFrom(etData, tblIdx + 1)

\* Variant: a failing row is logged and skipped, the loop goes on
LoadRowSkips ==
    /\ loadState = "open"
    /\ tblIdx <= Len(Tables)
    /\ LET r == UpsertRow(dialect, CurTable, tx[CurTable], CurItem)
       IN  /\ tx' = [tx EXCEPT ![CurTable] = r.rows]
           /\ store' = store
           /\ Advance
           /\ errs' = IF r.err = "none" THEN errs ELSE errs \cup {r.err}
           /\ UNCHANGED loadState
    /\ UNCHANGED <<auxVars, dialect, etData, preStore, loadCommitted, reload, nLoads, runVars>>

\* One iteration of `for idx, item in enumerate(et_dict)`.
LoadRow ==
    /\ loadState = "open"
    /\ tblIdx <= Len(Tables)
    /\ LET r == UpsertRow(dialect, CurTable, tx[CurTable], CurItem)
       IN  IF r.err = "none"
           THEN /\ tx' = [tx EXCEPT ![CurTable] = r.rows]
                /\ store' = store
                /\ Advance
                /\ UNCHANGED <<loadState, errs>>
           ELSE /\ Rollback
                /\ loadState' = "exit"
                /\ errs' = errs \cup {r.err}
                /\ UNCHANGED <<tblIdx, rowIdx>>
    /\ UNCHANGED <<auxVars, dialect, etData, preStore, loadCommitted, reload, nLoads, runVars>>

\* session.execute raises for a reason of the database's own
\* (connection lost, lock timeout): except Exception, log, exit(-1).
RowRaises ==
    /\ loadState = "open"
    /\ tblIdx <= Len(Tables)
    /\ Rollback
    /\ loadState' = "exit"
    /\ errs' = errs \cup {"operational"}
    /\ UNCHANGED <<auxVars, dialect, etData, tblIdx, rowIdx, preStore, loadCommitted, reload,
                   nLoads, runVars>>

\* __exit__ without exception: session.commit() succeeds
Commit ==
    /\ loadState = "open"
    /\ tblIdx > Len(Tables)
    /\ store' = tx
    /\ loadState' = "returned"
    /\ loadCommitted' = TRUE
    /\ UNCHANGED <<auxVars, dialect, tx, etData, tblIdx, rowIdx, preStore, reload, errs, nLoads, runVars>>

\* __exit__ without exception: session.commit() raises IntegrityError,
\* which __exit__ catches: rollback, close, and the with block ends normally.
CommitIntegrityError ==
    /\ loadState = "open"
    /\ tblIdx > Len(Tables)
    /\ Rollback
    /\ loadState' = "returned"
    /\ errs' = errs \cup {"integrity_commit"}
    /\ UNCHANGED <<auxVars, dialect, etData, tblIdx, rowIdx, preStore, loadCommitted, reload,
                   nLoads, runVars>>

\* __exit__ without exception: session.commit() raises another error,
\* which __exit__ does not catch: close, and the error leaves load2db.
CommitRaises ==
    /\ loadState = "open"
    /\ tblIdx > Len(Tables)
    /\ Rollback
    /\ loadState' = "raised"
    /\ errs' = errs \cup {"commit_error"}
    /\ UNCHANGED <<auxVars, dialect, etData, tblIdx, rowIdx, preStore, loadCommitted, reload,
                   nLoads, runVars>>

LoadStep == LoadRow \/ RowRaises \/ Commit \/ CommitIntegrityError \/ CommitRaises

\* ------------------------------------------------------------------------
\* Specification of the sink alone: load2db called repeatedly by one writer
\* ------------------------------------------------------------------------
CallLoad2db ==
    /\ stage = "IDLE"
    /\ loadState # "open"
    /\ nLoads < MaxLoads
    /\ \E data \in LoadInputs : EnterLoad(data)
    /\ errs' = {}
    /\ nLoads' = nLoads + 1
    /\ UNCHANGED <<auxVars, dialect, runVars>>

NoCheckpoint == [kind |-> "absent", dt |-> 0]

\* A run that has not entered load2db: no session, nothing written
Idle ==
    [pc |-> "idle", data |-> <<>>, ti |-> 1, ri |-> 1, existing |-> FALSE,
     del |-> EmptyStore, add |-> EmptyStore, inserted |-> {}, raced |-> FALSE,
     err |-> "none", ckpt |-> FALSE]

NoWriters == [w \in {"a", "b"} |-> Idle]

\* ids of the categories the upstream holds
CategoryIds == {1, 2}

\* A working directory holding neither sessions.json nor dicts.json
NoFiles == [n \in {} |-> <<>>]

\* Everything the process owns, before __main__ runs; --load-to defaults to "db"
InitProcess ==
    /\ dialect \in {"sqlite", "mssql"}
    /\ writers = NoWriters
    /\ now = 0
    /\ upstream = [c \in CategoryIds |-> 0]
    /\ dictsAt = 0
    /\ syncedAt = [kind |-> "none", dt |-> 0]
    /\ load_to = "db"
    /\ files = NoFiles
    /\ sunk = <<>>
    /\ store = EmptyStore
    /\ tx = EmptyStore
    /\ etData = <<>>
    /\ tblIdx = 1
    /\ rowIdx = 1
    /\ loadState = "none"
    /\ preStore = EmptyStore
    /\ loadCommitted = FALSE
    /\ reload = FALSE
    /\ errs = {}
    /\ nLoads = 0
    /\ stage = "IDLE"
    /\ daily = TRUE
    /\ incPass = 0
    /\ lastSynced = [kind |-> "min", dt |-> 0]
    /\ nRuns = 0
    /\ ckptWrites = 0
    /\ runStore = EmptyStore
    /\ dictStore = EmptyStore
    /\ calls = <<>>
    /\ fetched = 0
    /\ baseCats = <<>>
    /\ splitOf = <<DT(0, 0), DT(0, 0)>>
    /\ halfDays = <<>>

\* The upstream holds nothing for a window nobody asks for
InitCommon ==
    /\ InitProcess
    /\ matching = 0

\* Before any argument is parsed
NoArgs ==
    /\ startDt = "None"
    /\ argStop = "None"
    /\ today = TodayOf(0)
    /\ window = <<DT(0, 0), DT(0, 0)>>
    /\ wStep = "args"

\* No column parsed
NoTransform ==
    /\ tCol = ""
    /\ tIn = <<>>
    /\ tOut = [err |-> "none", vals |-> <<>>]
    /\ tStep = "raw"
    /\ nIn = [kind |-> "none", data |-> <<>>]
    /\ nOut = [err |-> "none", tables |-> <<>>]

\* No request made yet
NoFetch ==
    /\ fKind = "sessions"
    /\ fPhase = "idle"
    /\ wIdx = 1
    /\ dictIdx = 1
    /\ skip = 0
    /\ page_number = 1
    /\ attempt = 1
    /\ waited = 0
    /\ sessions = <<>>
    /\ suffix = ""
    /\ sIdx = 1
    /\ requested = {}
    /\ logged = {}

InitUpsert ==
    /\ InitCommon
    /\ NoTransform
    /\ NoArgs
    /\ NoFetch
    /\ test_mode = FALSE
    /\ checkpoint = NoCheckpoint

NextUpsert == CallLoad2db \/ LoadRow \/ RowRaises \/ Commit \/ CommitIntegrityError \/ CommitRaises

SpecUpsert == InitUpsert /\ [][NextUpsert]_vars

\* ------------------------------------------------------------------------
\* One run (run-et-etl.py 167-201)
\* ------------------------------------------------------------------------
\* ETL/utils.py file2dt: no file -> datetime.min; unreadable content -> None
file2dt(cp) ==
    CASE cp.kind = "absent"  -> [kind |-> "min", dt |-> 0]
      [] cp.kind = "corrupt" -> [kind |-> "none", dt |-> 0]
      [] OTHER               -> [kind |-> "dt", dt |-> cp.dt]

FetchingStages == {"FETCHING_DICTS", "FETCHING_SESSIONS", "FETCHING_INCREMENTAL"}

LoadingStages == {"LOADING_DICTS", "LOADING_SESSIONS", "LOADING_INCREMENTAL"}

\* Row-sets the transformed dictionary fetch can hold
CategoryRowSets ==
    { << [id |-> 1, name |-> 1, position |-> 1, updated_at |-> 1] >>,
      << [id |-> 1, name |-> 2, position |-> 1, updated_at |-> 2],
         [id |-> 2, name |-> 1, position |-> 1, updated_at |-> 1] >> }

ScorecardCategoryRowSets ==
    { <<>>,
      << [id |-> 1, scorecard_id |-> 1, name |-> 1] >>,
      << [id |-> 1, scorecard_id |-> 2, name |-> 1] >> }

DictTables == {"categories", "scorecard_categories"}

DictFetches ==
    {[t \in DictTables |-> IF t = "categories" THEN ca ELSE sc] :
        ca \in CategoryRowSets, sc \in ScorecardCategoryRowSets}

\* Row-sets the transformed session fetch can hold
SessionRowSets == { <<>>, << [id |-> 1, type |-> 1] >> }

SummaryRowSets ==
    { <<>>,
      << [session_id |-> 1, text |-> 1] >>,
      << [session_id |-> NULL, text |-> 1] >> }

SessionFetches ==
    {[t \in {"sessions", "sessions_summaries"} |->
         IF t = "sessions" THEN ss ELSE sm] :
        ss \in SessionRowSets, sm \in SummaryRowSets}

\* Values of the --start-dt argument: absent, a date, a malformed date
ArgStartDts == {"None", "2024-05-01", "2024-13-01"}

\* Values of the --stop-dt argument: absent, empty, a malformed date
ArgStopDts == {"None", "", "01/05/2024"}

\* __main__ up to the first stage: mode, parse_start_stop_dates, file2dt
StartRun ==
    /\ stage \in {"IDLE", "DONE", "FAILED"}
    /\ nLoads = 0
    /\ nRuns < MaxRuns
    /\ \E a \in ArgStartDts, b \in ArgStopDts :
          /\ ~Exited(parse_start_stop_dates(a, b, TodayOf(nRuns + 1)))
          /\ startDt' = a
          /\ daily' = (a = "None")
          /\ window' = parse_start_stop_dates(a, b, TodayOf(nRuns + 1))
    /\ calls' = <<>>
    /\ fetched' = 0
    /\ baseCats' = <<>>
    /\ lastSynced' = file2dt(checkpoint)
    /\ stage' = "FETCHING_DICTS"
    /\ incPass' = 0
    /\ nRuns' = nRuns + 1
    /\ ckptWrites' = 0
    /\ runStore' = store
    /\ dictStore' = store
    /\ loadState' = "none"
    /\ errs' = {}
    /\ UNCHANGED <<auxVars, dialect, store, tx, etData, tblIdx, rowIdx, preStore, loadCommitted, reload,
                   nLoads, checkpoint>>

\* Variant: the checkpoint is loaded before the arguments are parsed
StartRunExitsLate ==
    /\ stage \in {"IDLE", "DONE", "FAILED"}
    /\ nLoads = 0
    /\ nRuns < MaxRuns
    /\ \E a \in ArgStartDts, b \in ArgStopDts :
          /\ Exited(parse_start_stop_dates(a, b, TodayOf(nRuns + 1)))
          /\ startDt' = a
          /\ daily' = (a = "None")
    /\ calls' = <<>>
    /\ fetched' = 0
    /\ baseCats' = <<>>
    /\ lastSynced' = file2dt(checkpoint)
    /\ stage' = "FAILED"
    /\ incPass' = 0
    /\ nRuns' = nRuns + 1
    /\ ckptWrites' = 0
    /\ runStore' = store
    /\ dictStore' = store
    /\ loadState' = "none"
    /\ errs' = {"bad_date"}
    /\ UNCHANGED <<auxVars, dialect, store, tx, etData, tblIdx, rowIdx, preStore, loadCommitted, reload,
                   nLoads, checkpoint, window>>

\* __main__ when str2dt exits inside parse_start_stop_dates: the process
\* ends before file2dt and before any stage
StartRunExits ==
    /\ stage \in {"IDLE", "DONE", "FAILED"}
    /\ nLoads = 0
    /\ nRuns < MaxRuns
    /\ \E a \in ArgStartDts, b \in ArgStopDts :
          /\ Exited(parse_start_stop_dates(a, b, TodayOf(nRuns + 1)))
          /\ startDt' = a
          /\ daily' = (a = "None")
    /\ calls' = <<>>
    /\ fetched' = 0
    /\ baseCats' = <<>>
    /\ stage' = "FAILED"
    /\ incPass' = 0
    /\ nRuns' = nRuns + 1
    /\ ckptWrites' = 0
    /\ runStore' = store
    /\ dictStore' = store
    /\ loadState' = "none"
    /\ errs' = {"bad_date"}
    /\ UNCHANGED <<auxVars, dialect, store, tx, etData, tblIdx, rowIdx, preStore, loadCommitted, reload,
                   nLoads, checkpoint, lastSynced, window>>

\* etl_base_dicts: extract, transform, and entry into load2db
ExtractDicts ==
    /\ stage = "FETCHING_DICTS"
    /\ \E data \in DictFetches : EnterLoad(data)
    /\ stage' = "LOADING_DICTS"
    /\ UNCHANGED <<auxVars, dialect, errs, nLoads, startDt, daily, incPass, checkpoint, lastSynced, nRuns,
                   ckptWrites, runStore, dictStore, periodVars>>

\* extract or transform raises: log_exceptions re-raises, the process ends
ExtractFails ==
    /\ stage \in FetchingStages
    /\ stage' = "FAILED"
    /\ errs' = errs \cup {"fetch"}
    /\ UNCHANGED <<auxVars, dialect, store, tx, etData, tblIdx, rowIdx, loadState, preStore,
                   loadCommitted, reload, nLoads, startDt, daily, incPass, checkpoint, lastSynced,
                   nRuns, ckptWrites, runStore, dictStore, periodVars>>

\* exit(-1) or an exception leaves load2db: the process ends
RunAborts ==
    /\ stage \in LoadingStages
    /\ loadState \in {"exit", "raised"}
    /\ stage' = "FAILED"
    /\ UNCHANGED <<auxVars, dialect, loadVars, nLoads, startDt, daily, incPass, checkpoint, lastSynced, nRuns,
                   ckptWrites, runStore, dictStore, periodVars>>

\* Variant: the period stage starts while the dictionary load is still open
DictsLoadedEarly ==
    /\ stage = "LOADING_DICTS"
    /\ loadState \in {"open", "returned"}
    /\ stage' = "FETCHING_SESSIONS"
    /\ dictStore' = store
    /\ baseCats' = etData["categories"]
    /\ loadState' = "none"
    /\ UNCHANGED <<auxVars, dialect, store, tx, etData, tblIdx, rowIdx, preStore, loadCommitted, reload,
                   errs, nLoads, startDt, daily, incPass, checkpoint, lastSynced, nRuns, ckptWrites,
                   runStore, window, calls, fetched>>

\* etl_base_dicts returns: the period stage starts
DictsLoaded ==
    /\ stage = "LOADING_DICTS"
    /\ loadState = "returned"
    /\ stage' = "FETCHING_SESSIONS"
    /\ dictStore' = store
    /\ baseCats' = etData["categories"]
    /\ loadState' = "none"
    /\ UNCHANGED <<auxVars, dialect, store, tx, etData, tblIdx, rowIdx, preStore, loadCommitted, reload,
                   errs, nLoads, startDt, daily, incPass, checkpoint, lastSynced, nRuns, ckptWrites,
                   runStore, window, calls, fetched>>

\* dt2file(datetime.now()) and the end of __main__
WriteCheckpoint ==
    /\ checkpoint' = [kind |-> "dt", dt |-> nRuns]
    /\ ckptWrites' = ckptWrites + 1
    /\ stage' = "DONE"
    /\ UNCHANGED <<incPass, errs>>

\* Variant: the incremental stage is entered whatever the mode
PeriodReturnsAlwaysIncremental ==
    IF stage \in {"FETCHING_SESSIONS", "LOADING_SESSIONS"}
    THEN /\ stage' = "FETCHING_INCREMENTAL"
         /\ incPass' = 1
         /\ UNCHANGED <<checkpoint, ckptWrites, errs>>
    ELSE IF incPass = 1
         THEN /\ stage' = "FETCHING_INCREMENTAL"
              /\ incPass' = 2
              /\ UNCHANGED <<checkpoint, ckptWrites, errs>>
         ELSE WriteCheckpoint

\* What __main__ and etl_sessions_incremental do when one
\* etl_sessions_period call returns
PeriodReturns ==
    IF stage \in {"FETCHING_SESSIONS", "LOADING_SESSIONS"}
    THEN IF daily
         THEN /\ stage' = "FETCHING_INCREMENTAL"
              /\ incPass' = 1
              /\ UNCHANGED <<checkpoint, ckptWrites, errs>>
         ELSE WriteCheckpoint
    ELSE IF incPass = 1
         THEN /\ stage' = "FETCHING_INCREMENTAL"
              /\ incPass' = 2
              /\ UNCHANGED <<checkpoint, ckptWrites, errs>>
         ELSE WriteCheckpoint

\* i["updated_at"].to_pydatetime() > _last_synced
UpdatedAfter(updated_at, last_synced) ==
    IF last_synced.kind = "min" THEN TRUE ELSE updated_at > last_synced.dt

\* Variant: categories updated at the checkpoint instant are named as well
updated_categories_or_equal(cats, last_synced) ==
    LET later(c) == last_synced.kind = "min" \/ c["updated_at"] >= last_synced.dt
    IN  [i \in 1..Len(SelectSeq(cats, later)) |-> SelectSeq(cats, later)[i]["id"]]

\* updated_categories of etl_sessions_incremental: the ids, in list order
updated_categories(cats, last_synced) ==
    LET later(c) == UpdatedAfter(c["updated_at"], last_synced)
    IN  [i \in 1..Len(SelectSeq(cats, later)) |-> SelectSeq(cats, later)[i]["id"]]

\* The comparison raises TypeError when file2dt returned None (the
\* dictionary transform leaves categories non-empty).
ComparesWithNone == stage = "FETCHING_INCREMENTAL" /\ incPass = 2 /\ lastSynced.kind = "none"

\* Variant: the categories pass comes first and the window is one day short
CallOfCategoriesFirst(st, pass) ==
    IF st = "FETCHING_SESSIONS"
    THEN [filters |-> "None", ids |-> <<>>, start |-> window[1], stop |-> window[2]]
    ELSE [filters |-> IF pass = 2 THEN "is_scored,manual" ELSE "categories",
          ids     |-> IF pass = 2 THEN <<>> ELSE updated_categories(baseCats, lastSynced),
          start   |-> MinusDays(window[2], incremental_sync_n_days - 1),
          stop    |-> window[2]]

\* filters and window of the etl_sessions_period call of the current stage
CallOf(st, pass) ==
    IF st = "FETCHING_SESSIONS"
    THEN [filters |-> "None", ids |-> <<>>, start |-> window[1], stop |-> window[2]]
    ELSE [filters |-> IF pass = 1 THEN "is_scored,manual" ELSE "categories",
          ids     |-> IF pass = 1 THEN <<>> ELSE updated_categories(baseCats, lastSynced),
          start   |-> MinusDays(window[2], incremental_sync_n_days),
          stop    |-> window[2]]

\* etl_sessions_incremental, second pass: updated_categories raises
UpdatedCategoriesRaises ==
    /\ ComparesWithNone
    /\ stage' = "FAILED"
    /\ errs' = errs \cup {"type_error"}
    /\ UNCHANGED <<auxVars, dialect, store, tx, etData, tblIdx, rowIdx, loadState, preStore,
                   loadCommitted, reload, nLoads, startDt, daily, incPass, checkpoint, lastSynced,
                   nRuns, ckptWrites, runStore, dictStore, periodVars>>

\* etl_sessions_period with sessions: transform, and entry into load2db
ExtractSessions ==
    /\ stage \in {"FETCHING_SESSIONS", "FETCHING_INCREMENTAL"}
    /\ ~ComparesWithNone
    /\ \E data \in SessionFetches :
          /\ Len(data["sessions"]) > 0
          /\ fetched' = Len(data["sessions"])
          /\ EnterLoad(data)
    /\ calls' = Append(calls, CallOf(stage, incPass))
    /\ stage' = IF stage = "FETCHING_SESSIONS" THEN "LOADING_SESSIONS"
                ELSE "LOADING_INCREMENTAL"
    /\ UNCHANGED <<auxVars, dialect, errs, nLoads, startDt, daily, incPass, checkpoint, lastSynced, nRuns,
                   ckptWrites, runStore, dictStore, window, baseCats>>

\* Variant: an empty fetch is handed to transform and load all the same
ExtractNoSessionsLoads ==
    /\ stage \in {"FETCHING_SESSIONS", "FETCHING_INCREMENTAL"}
    /\ ~ComparesWithNone
    /\ calls' = Append(calls, CallOf(stage, incPass))
    /\ fetched' = 0
    /\ EnterLoad([t \in {"sessions", "sessions_summaries"} |-> <<>>])
    /\ stage' = IF stage = "FETCHING_SESSIONS" THEN "LOADING_SESSIONS"
                ELSE "LOADING_INCREMENTAL"
    /\ UNCHANGED <<auxVars, dialect, errs, nLoads, startDt, daily, incPass, checkpoint, lastSynced, nRuns,
                   ckptWrites, runStore, dictStore, window, baseCats>>

\* etl_sessions_period with no session: transform and load are skipped
ExtractNoSessions ==
    /\ stage \in {"FETCHING_SESSIONS", "FETCHING_INCREMENTAL"}
    /\ ~ComparesWithNone
    /\ calls' = Append(calls, CallOf(stage, incPass))
    /\ fetched' = 0
    /\ PeriodReturns
    /\ UNCHANGED <<auxVars, dialect, store, tx, etData, tblIdx, rowIdx, loadState, preStore, loadCommitted,
                   reload, nLoads, startDt, daily, lastSynced, nRuns, runStore, dictStore,
                   window, baseCats>>

\* load2db returns to etl_sessions_period, which returns to its caller
SessionsLoaded ==
    /\ stage \in {"LOADING_SESSIONS", "LOADING_INCREMENTAL"}
    /\ loadState = "returned"
    /\ PeriodReturns
    /\ loadState' = "none"
    /\ UNCHANGED <<auxVars, dialect, store, tx, etData, tblIdx, rowIdx, preStore, loadCommitted, reload,
                   nLoads, startDt, daily, lastSynced, nRuns, runStore, dictStore, periodVars>>

\* settings.test_mode is set from --test-mode before the first stage
Init ==
    /\ InitCommon
    /\ NoTransform
    /\ NoArgs
    /\ NoFetch
    /\ test_mode \in BOOLEAN
    /\ checkpoint \in {NoCheckpoint, [kind |-> "corrupt", dt |-> 0]}

Next ==
    \/ StartRun
    \/ StartRunExits
    \/ ExtractDicts
    \/ ExtractFails
    \/ RunAborts
    \/ DictsLoaded
    \/ ExtractSessions
    \/ ExtractNoSessions
    \/ SessionsLoaded
    \/ UpdatedCategoriesRaises
    \/ LoadRow
    \/ RowRaises
    \/ Commit
    \/ CommitIntegrityError
    \/ CommitRaises

Spec == Init /\ [][Next]_vars

\* ------------------------------------------------------------------------
\* Specification of the window functions: parse_start_stop_dates and
\* split_half_days applied to arguments and clocks
\* ------------------------------------------------------------------------
ArgDates == {"None", "", "2024-05-01", "2024-05-02", "2024-05-03"}

\* Clocks: shortly after midnight, and in the afternoon
Todays == {DT(d, t) : d \in {124, 125}, t \in {5, 900}}

\* Datetimes a caller of split_half_days can pass
DateTimes == {DT(d, t) : d \in 122..(121 + MaxSpan), t \in {0, 5, 900}}

restVars == <<dialect, loadVars, nLoads, stage, startDt, daily, incPass, checkpoint, lastSynced,
              nRuns, ckptWrites, runStore, dictStore, calls, fetched, baseCats>>

\* start_dt, stop_dt = parse_start_stop_dates(_args=args)
ParseArgs ==
    /\ wStep = "args"
    /\ window' = parse_start_stop_dates(startDt, argStop, today)
    /\ wStep' = "parsed"
    /\ UNCHANGED <<restVars, fetchVars, detailVars, transformVars, raceVars, envVars, argStop, today, splitOf, halfDays>>

\* get_et_sessions of the period call: split_half_days(start_dt, stop_dt)
SplitPeriod ==
    /\ wStep = "parsed"
    /\ splitOf' = window
    /\ halfDays' = split_half_days(window[1], window[2])
    /\ wStep' = "split"
    /\ UNCHANGED <<restVars, fetchVars, detailVars, transformVars, raceVars, envVars, window, argStop, today>>

\* get_et_sessions of an incremental call (daily mode)
SplitIncremental ==
    /\ wStep = "parsed"
    /\ ~Truthy(startDt)
    /\ splitOf' = <<MinusDays(window[2], incremental_sync_n_days), window[2]>>
    /\ halfDays' = split_half_days(MinusDays(window[2], incremental_sync_n_days), window[2])
    /\ wStep' = "split"
    /\ UNCHANGED <<restVars, fetchVars, detailVars, transformVars, raceVars, envVars, window, argStop, today>>

\* split_half_days called with datetimes of the caller's own
SplitAny ==
    /\ wStep = "args"
    /\ \E a, b \in DateTimes :
          /\ DtLeq(a, b)
          /\ splitOf' = <<a, b>>
          /\ halfDays' = split_half_days(a, b)
    /\ wStep' = "split_any"
    /\ UNCHANGED <<restVars, fetchVars, detailVars, transformVars, raceVars, envVars, window, argStop, today>>

InitWindows ==
    /\ InitCommon
    /\ NoTransform
    /\ NoFetch
    /\ test_mode = FALSE
    /\ checkpoint = NoCheckpoint
    /\ startDt \in ArgDates
    /\ argStop \in ArgDates
    /\ today \in Todays
    /\ window = <<DT(0, 0), DT(0, 0)>>
    /\ wStep = "args"

NextWindows == ParseArgs \/ SplitPeriod \/ SplitIncremental \/ SplitAny

SpecWindows == InitWindows /\ [][NextWindows]_vars

\* ------------------------------------------------------------------------
\* The list and dictionary GETs (ETL/Extract.py 23-64 and 207-250,
\* ETL/utils.py request_et_api 134-193)
\* ------------------------------------------------------------------------
\* stop=stop_after_attempt(10)
stop_after_attempt == 10

\* wait=wait_exponential(multiplier=1, min=5, max=30): seconds slept after
\* failed attempt n
wait_exponential(n) ==
    LET result == 2 ^ (n - 1)
        capped == IF result < 30 THEN result ELSE 30
    IN  IF capped > 5 THEN capped ELSE 5

\* The GETs of extract_base_dicts, in order
BaseDictUrls == <<"/agents", "/categories", "/agent-groups", "/labels", "/scorecards", "/tags", "/users">>

\* page_limit in force: test_mode_limit_sessions in test mode, else the default
page_limit == PageLimit

\* Windows get_et_sessions is called with for explicit --start-dt / --stop-dt
FetchWindows ==
    {parse_start_stop_dates(a, b, TodayOf(0)) : a \in {"2024-05-01", "2024-05-02"}, b \in {"2024-05-01", "2024-05-02"}}

\* response["items"] of the request of window w at offset sk holding c records
SessionPage(w, sk, c) == [i \in 1..c |-> <<w, sk + i>>]

fetchRest == <<dialect, store, tx, etData, tblIdx, rowIdx, loadState, preStore, loadCommitted, reload,
               nLoads, startDt, incPass, lastSynced, nRuns, runStore, dictStore, periodVars,
               argStop, today, wStep, detailVars, transformVars, raceVars, envVars>>

\* extract_base_dicts or get_et_sessions is entered: the first GET is pending
EnterFetch ==
    /\ fPhase = "idle"
    /\ stage = "IDLE"
    /\ \E k \in {"sessions", "dicts"} :
          /\ fKind' = k
          /\ IF k = "dicts"
             THEN /\ stage' = "FETCHING_DICTS"
                  /\ fPhase' = "request"
                  /\ UNCHANGED <<splitOf, halfDays, daily>>
             ELSE \E w \in FetchWindows :
                     /\ stage' = "FETCHING_SESSIONS"
                     /\ daily' = FALSE
                     /\ splitOf' = w
                     /\ halfDays' = split_half_days(w[1], w[2])
                     /\ fPhase' = IF halfDays' = <<>> THEN "returned" ELSE "request"
    /\ UNCHANGED <<fetchRest, errs, checkpoint, ckptWrites, test_mode, wIdx, dictIdx, skip, page_number,
                   attempt, waited, sessions>>

\* Variant: a page is the last one only when it is empty
LastPageWhenEmpty(c) == c = 0

\* if len(sessions_page) != page_limit: break  # last page
LastPage(c) == c # page_limit

\* A /sessions GET returns: the body of the while loop and, when it breaks,
\* the tail of the for loop
\* Variant: the loop breaks before the last page is added to the result
PageBodyDropsLast(c) ==
    /\ ~(LastPage(c) \/ test_mode) => page_number <= MaxPages
    /\ sessions' = IF LastPage(c) THEN sessions ELSE sessions \o SessionPage(wIdx, skip, c)
    /\ IF LastPage(c) \/ test_mode
       THEN /\ skip' = 0
            /\ page_number' = 1
            /\ IF test_mode
               THEN /\ wIdx' = wIdx
                    /\ fPhase' = "returned"
               ELSE /\ wIdx' = wIdx + 1
                    /\ fPhase' = IF wIdx = Len(halfDays) THEN "returned" ELSE "request"
       ELSE /\ page_number' = page_number + 1
            /\ skip' = skip + c
            /\ UNCHANGED <<wIdx, fPhase>>
    /\ attempt' = 1
    /\ waited' = 0
    /\ UNCHANGED <<fetchRest, errs, checkpoint, ckptWrites, stage, daily, splitOf, halfDays, test_mode,
                   fKind, dictIdx>>

\* The body of the while loop for a page of c records and, when it breaks,
\* the tail of the for loop
PageBody(c) ==
    /\ ~(LastPage(c) \/ test_mode) => page_number <= MaxPages
    /\ sessions' = sessions \o SessionPage(wIdx, skip, c)
    /\ IF LastPage(c) \/ test_mode
       THEN /\ skip' = 0
            /\ page_number' = 1
            /\ IF test_mode
               THEN /\ wIdx' = wIdx
                    /\ fPhase' = "returned"
               ELSE /\ wIdx' = wIdx + 1
                    /\ fPhase' = IF wIdx = Len(halfDays) THEN "returned" ELSE "request"
       ELSE /\ page_number' = page_number + 1
            /\ skip' = skip + c
            /\ UNCHANGED <<wIdx, fPhase>>
    /\ attempt' = 1
    /\ waited' = 0
    /\ UNCHANGED <<fetchRest, errs, checkpoint, ckptWrites, stage, daily, splitOf, halfDays, test_mode,
                   fKind, dictIdx>>

PageResponds ==
    /\ fPhase = "request"
    /\ fKind = "sessions"
    /\ \E c \in 0..page_limit : PageBody(c)

\* A dictionary GET returns: the next one is requested, or the dict is returned
DictResponds ==
    /\ fPhase = "request"
    /\ fKind = "dicts"
    /\ IF dictIdx < Len(BaseDictUrls)
       THEN /\ dictIdx' = dictIdx + 1
            /\ UNCHANGED fPhase
       ELSE /\ fPhase' = "returned"
            /\ UNCHANGED dictIdx
    /\ attempt' = 1
    /\ waited' = 0
    /\ UNCHANGED <<fetchRest, errs, checkpoint, ckptWrites, stage, daily, splitOf, halfDays, test_mode,
                   fKind, wIdx, skip, page_number, sessions>>

\* Variant: the first failure is raised to the caller
GetFailsNoRetry ==
    /\ fPhase' = "raised"
    /\ stage' = "FAILED"
    /\ errs' = errs \cup {"fetch"}
    /\ UNCHANGED <<attempt, waited>>

\* get_with_retry: an attempt fails; tenacity sleeps and calls again until
\* the attempt number reaches stop_after_attempt, then re-raises. Nothing
\* between request_et_api and the end of the process catches the error.
GetRetries ==
    IF attempt < stop_after_attempt
    THEN /\ attempt' = attempt + 1
         /\ waited' = wait_exponential(attempt)
         /\ UNCHANGED <<fPhase, stage, errs>>
    ELSE /\ fPhase' = "raised"
         /\ stage' = "FAILED"
         /\ errs' = errs \cup {"fetch"}
         /\ UNCHANGED <<attempt, waited>>

\* et.http_client.get raises on a list or dictionary GET
GetFails ==
    /\ fPhase = "request"
    /\ GetRetries
    /\ UNCHANGED <<fetchRest, checkpoint, ckptWrites, daily, splitOf, halfDays, test_mode, fKind, wIdx,
                   dictIdx, skip, page_number, sessions>>

\* The extract returned data: transform, then load2db is entered
FetchedLoads ==
    /\ fPhase = "returned"
    /\ \/ /\ stage = "FETCHING_DICTS"
          /\ stage' = "LOADING_DICTS"
          /\ \E data \in DictFetches : EnterLoad(data)
       \/ /\ stage = "FETCHING_SESSIONS"
          /\ Len(sessions) > 0
          /\ stage' = "LOADING_SESSIONS"
          /\ \E data \in SessionFetches : Len(data["sessions"]) > 0 /\ EnterLoad(data)
    /\ UNCHANGED <<auxVars, dialect, errs, nLoads, startDt, daily, incPass, checkpoint, lastSynced, nRuns,
                   ckptWrites, runStore, dictStore, periodVars>>

\* The extract returned no session: etl_sessions_period returns at once
FetchedNothing ==
    /\ fPhase = "returned"
    /\ stage = "FETCHING_SESSIONS"
    /\ Len(sessions) = 0
    /\ PeriodReturns
    /\ UNCHANGED <<auxVars, dialect, store, tx, etData, tblIdx, rowIdx, loadState, preStore, loadCommitted,
                   reload, nLoads, startDt, daily, lastSynced, nRuns, runStore, dictStore, periodVars>>

InitFetch ==
    /\ InitCommon
    /\ NoTransform
    /\ NoArgs
    /\ NoFetch
    /\ test_mode \in BOOLEAN
    /\ checkpoint = NoCheckpoint

NextFetch == EnterFetch \/ PageResponds \/ DictResponds \/ GetFails \/ FetchedLoads \/ FetchedNothing

SpecFetch == InitFetch /\ [][NextFetch]_vars

\* ------------------------------------------------------------------------
\* Per-record enrichment (ETL/Extract.py get_et_session_details 67-117,
\* called by extract_sessions 160-189)
\* ------------------------------------------------------------------------
\* Values of the "reviewers" column of a session of the list endpoint
ReviewerLists == { <<>>, <<10>> }

\* Session lists get_et_sessions can hand to the enrichment: ids by position
SessionLists ==
    UNION {[1..n -> ReviewerLists] : n \in 0..MaxSessions}

\* Bodies the upstream answers a detail GET with
DetailResponses == { <<7>> }

\* column_should_contain_data of the pass: "reviewers" for /scores, none
\* (False) for /summary
ColumnOf(sfx) == IF sfx = "/scores" THEN "reviewers" ELSE ""

\* Variant: no record is skipped
SkipsRecordNever(session, column) == FALSE

\* if column_should_contain_data and not session[column_should_contain_data]
SkipsRecord(session, column) == column # "" /\ session[column] = <<>>

\* endpoint_suffix.replace("/", "")
KeyOfSuffix(sfx) == IF sfx = "/scores" THEN "scores" ELSE "summary"

detailRest == <<dialect, loadVars, nLoads, startDt, daily, incPass, checkpoint, lastSynced, nRuns,
                ckptWrites, runStore, dictStore, periodVars, windowVars, transformVars, raceVars, envVars, test_mode, wIdx,
                dictIdx, skip, page_number>>

\* extract_sessions after get_et_sessions returned: session["scores"] = []
\* for every session, then get_et_session_details(..., "/scores", "reviewers")
EnterDetails ==
    /\ fPhase = "idle"
    /\ stage = "IDLE"
    /\ stage' = "FETCHING_SESSIONS"
    /\ fKind' = "details"
    /\ fPhase' = "loop"
    /\ \E rs \in SessionLists :
          sessions' = [k \in DOMAIN rs |->
                          [id |-> k, reviewers |-> rs[k], scores |-> <<>>, summary |-> NULL]]
    /\ suffix' = "/scores"
    /\ sIdx' = 1
    /\ UNCHANGED <<detailRest, requested, logged, attempt, waited>>

\* One iteration reaches the skip test and continues without a request
DetailSkips ==
    /\ fKind = "details"
    /\ fPhase = "loop"
    /\ sIdx <= Len(sessions)
    /\ SkipsRecord(sessions[sIdx], ColumnOf(suffix))
    /\ sIdx' = sIdx + 1
    /\ UNCHANGED <<detailRest, stage, fKind, fPhase, sessions, suffix, requested, logged, attempt, waited>>

\* One iteration passes the skip test: request_et_api is called
DetailRequests ==
    /\ fKind = "details"
    /\ fPhase = "loop"
    /\ sIdx <= Len(sessions)
    /\ ~SkipsRecord(sessions[sIdx], ColumnOf(suffix))
    /\ fPhase' = "request"
    /\ requested' = requested \cup {<<suffix, sessions[sIdx].id>>}
    /\ attempt' = 1
    /\ waited' = 0
    /\ UNCHANGED <<detailRest, stage, fKind, sessions, suffix, sIdx, logged>>

\* The detail GET returns: session[key] = session_meta
DetailResponds ==
    /\ fKind = "details"
    /\ fPhase = "request"
    /\ \E meta \in DetailResponses :
          sessions' = [sessions EXCEPT ![sIdx][KeyOfSuffix(suffix)] = meta]
    /\ sIdx' = sIdx + 1
    /\ fPhase' = "loop"
    /\ attempt' = 1
    /\ waited' = 0
    /\ UNCHANGED <<detailRest, stage, fKind, suffix, requested, logged>>

\* Variant: the error of a detail GET leaves get_et_session_details
DetailRaises ==
    /\ fPhase' = "raised"
    /\ stage' = "FAILED"
    /\ errs' = errs \cup {"fetch"}
    /\ UNCHANGED <<sIdx, logged, attempt, waited>>

\* except Exception as e: logger.error(...); continue
DetailGivesUp ==
    /\ logged' = logged \cup {<<suffix, sessions[sIdx].id>>}
    /\ sIdx' = sIdx + 1
    /\ fPhase' = "loop"
    /\ attempt' = 1
    /\ waited' = 0
    /\ UNCHANGED <<stage, errs>>

\* An attempt of the detail GET fails: get_with_retry repeats it as for any
\* GET; the error re-raised after the last attempt is caught by the loop,
\* logged, and the record keeps its placeholder
DetailFails ==
    /\ fKind = "details"
    /\ fPhase = "request"
    /\ IF attempt < stop_after_attempt
       THEN /\ attempt' = attempt + 1
            /\ waited' = wait_exponential(attempt)
            /\ UNCHANGED <<fPhase, sIdx, logged, stage, errs>>
       ELSE DetailGivesUp
    /\ UNCHANGED <<dialect, store, tx, etData, tblIdx, rowIdx, loadState, preStore, loadCommitted,
                   reload, nLoads, startDt, daily, incPass, checkpoint, lastSynced, nRuns,
                   ckptWrites, runStore, dictStore, periodVars, windowVars, transformVars, raceVars, envVars, test_mode,
                   wIdx, dictIdx, skip, page_number, fKind, sessions, suffix, requested>>

\* The loop of one pass is over: after /scores, session["summary"] = [] and
\* get_et_session_details(..., "/summary"); after /summary, extract_sessions
\* returns
PassEnds ==
    /\ fKind = "details"
    /\ fPhase = "loop"
    /\ sIdx > Len(sessions)
    /\ IF suffix = "/scores"
       THEN /\ sessions' = [k \in DOMAIN sessions |-> [sessions[k] EXCEPT !.summary = <<>>]]
            /\ suffix' = "/summary"
            /\ sIdx' = 1
            /\ UNCHANGED fPhase
       ELSE /\ fPhase' = "returned"
            /\ UNCHANGED <<sessions, suffix, sIdx>>
    /\ UNCHANGED <<detailRest, stage, fKind, requested, logged, attempt, waited>>

InitDetails ==
    /\ InitCommon
    /\ NoTransform
    /\ NoArgs
    /\ NoFetch
    /\ test_mode = FALSE
    /\ checkpoint = NoCheckpoint

NextDetails == EnterDetails \/ DetailSkips \/ DetailRequests \/ DetailResponds \/ DetailFails \/ PassEnds

SpecDetails == InitDetails /\ [][NextDetails]_vars

\* ------------------------------------------------------------------------
\* Parsing DateTimes (ETL/Transform.py 129-139 and 243-266,
\* ETL/utils.py safe_to_datetime 197-205)
\* ------------------------------------------------------------------------
\* Timestamp columns, one for each way the transform parses a column
TimestampColumns ==
    {"agent_group_associations.start_dt", "categories.updated_at", "sessions.start_dt",
     "sessions_summaries.created_at"}

\* A raw value of a timestamp field: an in-range instant counted in ticks of
\* 1/TicksPerSecond s ("ts"), an instant outside the datetime64[ns] range such
\* as 0001-01-01T00:00:00 ("oob"), None ("none"), or a string that is no
\* timestamp ("bad"), whose leading YYYY-MM-DDTHH:MM:SS part, if any, is an
\* in-range instant (lead "ts"), an out-of-range one ("oob") or absent ("none")
RawTimestamps ==
    {[kind |-> "ts", ticks |-> n, lead |-> "ts"] : n \in 0..(2 * TicksPerSecond - 1)}
    \cup {[kind |-> "oob", ticks |-> 0, lead |-> "oob"], [kind |-> "none", ticks |-> 0, lead |-> "none"]}
    \cup {[kind |-> "bad", ticks |-> n, lead |-> "ts"] : n \in {1, TicksPerSecond + 1}}
    \cup {[kind |-> "bad", ticks |-> 0, lead |-> l] : l \in {"oob", "none"}}

RawColumns == UNION {[1..n -> RawTimestamps] : n \in 1..MaxRows}

Instant(s) == [kind |-> "ts", sec |-> s]

NaT == [kind |-> "nat", sec |-> 0]

\* pd.Timestamp('1900-01-01')
DefaultStart == [kind |-> "default", sec |-> 0]

\* Timestamp.round('s'): to the nearest second, a tie to the even second
round_s(ticks) ==
    LET q == ticks \div TicksPerSecond
        r == ticks % TicksPerSecond
    IN  IF 2 * r < TicksPerSecond THEN q
        ELSE IF 2 * r > TicksPerSecond THEN q + 1
        ELSE IF q % 2 = 0 THEN q ELSE q + 1

\* pd.to_datetime(value).round('s') for one value
to_datetime(v) ==
    CASE v.kind = "ts"   -> [err |-> "none", val |-> Instant(round_s(v.ticks))]
      [] v.kind = "none" -> [err |-> "none", val |-> NaT]
      [] v.kind = "oob"  -> [err |-> "OutOfBoundsDatetime", val |-> NaT]
      [] OTHER           -> [err |-> "ValueError", val |-> NaT]

\* pd.to_datetime(column).dt.round('s'): the first value that does not
\* parse raises for the whole column
to_datetime_column(col) ==
    LET res == [k \in DOMAIN col |-> to_datetime(col[k])]
        bad == {k \in DOMAIN col : res[k].err # "none"}
    IN  IF bad = {}
        THEN [err |-> "none", vals |-> [k \in DOMAIN col |-> res[k].val]]
        ELSE [err |-> res[CHOOSE k \in bad : \A j \in bad : k <= j].err, vals |-> <<>>]

\* safe_to_datetime(date_str, default_value)
safe_to_datetime(v, default_value) ==
    IF to_datetime(v).err = "OutOfBoundsDatetime"
    THEN [err |-> "none", val |-> default_value]
    ELSE to_datetime(v)

\* column.apply(safe_to_datetime, default_value=...)
apply_safe_to_datetime(col, default_value) ==
    LET res == [k \in DOMAIN col |-> safe_to_datetime(col[k], default_value)]
        bad == {k \in DOMAIN col : res[k].err # "none"}
    IN  IF bad = {}
        THEN [err |-> "none", vals |-> [k \in DOMAIN col |-> res[k].val]]
        ELSE [err |-> res[CHOOSE k \in bad : \A j \in bad : k <= j].err, vals |-> <<>>]

\* column.str.extract(r'(\d{4}-\d{2}-\d{2}T\d{2}:\d{2}:\d{2})')[0]: the
\* leading part of each string, NaN where there is none
str_extract(v) ==
    CASE v.lead = "ts"  -> [kind |-> "ts", ticks |-> (v.ticks \div TicksPerSecond) * TicksPerSecond,
                            lead |-> "ts"]
      [] v.lead = "oob" -> [kind |-> "oob", ticks |-> 0, lead |-> "oob"]
      [] OTHER          -> [kind |-> "none", ticks |-> 0, lead |-> "none"]

\* sessions.start_dt: try to_datetime; except: extract, then to_datetime
start_dt_to_datetime(col) ==
    IF to_datetime_column(col).err = "none"
    THEN to_datetime_column(col)
    ELSE to_datetime_column([k \in DOMAIN col |-> str_extract(col[k])])

\* The parse the transform applies to a column
ParseColumn(name, col) ==
    CASE name = "agent_group_associations.start_dt" -> apply_safe_to_datetime(col, DefaultStart)
      [] name = "sessions.start_dt"                 -> start_dt_to_datetime(col)
      [] OTHER                                      -> to_datetime_column(col)

transformRest == <<dialect, loadVars, nLoads, startDt, daily, incPass, checkpoint, lastSynced, nRuns,
                   ckptWrites, runStore, dictStore, periodVars, windowVars, fetchVars, detailVars,
                   raceVars, envVars>>

\* "Parsing DateTimes" for one column; an exception leaves the transform
\* and ends the run
ParseDateTimes ==
    /\ tStep = "raw"
    /\ tOut' = ParseColumn(tCol, tIn)
    /\ tStep' = "parsed"
    /\ stage' = IF tOut'.err = "none" THEN stage ELSE "FAILED"
    /\ UNCHANGED <<transformRest, tCol, tIn, nIn, nOut>>

InitTransform ==
    /\ InitCommon
    /\ NoArgs
    /\ NoFetch
    /\ test_mode = FALSE
    /\ checkpoint = NoCheckpoint
    /\ tCol \in TimestampColumns
    /\ tIn \in RawColumns
    /\ tOut = [err |-> "none", vals |-> <<>>]
    /\ tStep = "raw"
    /\ nIn = [kind |-> "none", data |-> <<>>]
    /\ nOut = [err |-> "none", tables |-> <<>>]

NextTransform == ParseDateTimes

SpecTransform == InitTransform /\ [][NextTransform]_vars

\* ------------------------------------------------------------------------
\* Flattening nested collections (ETL/Transform.py transform_base_dicts
\* 66-100, 152-163; transform_session_data 179-241, 277-297)
\* ------------------------------------------------------------------------
RECURSIVE Concat(_)
Concat(ss) == IF ss = <<>> THEN <<>> ELSE Head(ss) \o Concat(Tail(ss))

\* The columns of a DataFrame built from these records: the union of keys
ColumnsOf(rows) == UNION {DOMAIN rows[k] : k \in DOMAIN rows}

\* df.replace({np.nan: None}).to_dict(orient='records'): every row has every
\* column of the frame, None where the record had no such key
to_dict(rows) ==
    [k \in DOMAIN rows |->
        [c \in ColumnsOf(rows) |-> IF c \in DOMAIN rows[k] THEN rows[k][c] ELSE NULL]]

\* df.drop(columns=cols): a column that is not in the frame raises KeyError
drop(rows, cols) ==
    IF cols \subseteq ColumnsOf(rows)
    THEN [err |-> "none", rows |-> [k \in DOMAIN rows |-> [c \in DOMAIN rows[k] \ cols |-> rows[k][c]]]]
    ELSE [err |-> "KeyError", rows |-> <<>>]

\* The rows json_normalize makes of one record: each element of
\* rec[record_path], with meta[m] set to rec[m] for every meta field m
Explode(rec, record_path, meta) ==
    [k \in DOMAIN rec[record_path] |->
        rec[record_path][k] @@ [c \in {meta[m] : m \in DOMAIN meta} |->
                                   rec[CHOOSE m \in DOMAIN meta : meta[m] = c]]]

\* pd.json_normalize(data, record_path=..., meta=[...], meta_prefix=...);
\* meta maps each meta field to its prefixed column
json_normalize(data, record_path, meta) ==
    IF data = <<>> THEN [err |-> "none", rows |-> <<>>]
    ELSE IF \E i \in DOMAIN data : record_path \notin DOMAIN data[i] \/ ~(DOMAIN meta \subseteq DOMAIN data[i])
    THEN [err |-> "KeyError", rows |-> <<>>]
    ELSE IF \E i \in DOMAIN data : \E k \in DOMAIN data[i][record_path] :
               {meta[m] : m \in DOMAIN meta} \cap DOMAIN data[i][record_path][k] # {}
    THEN [err |-> "ValueError", rows |-> <<>>]
    ELSE [err |-> "none",
          rows |-> Concat([i \in DOMAIN data |-> Explode(data[i], record_path, meta)])]

NoMeta == [m \in {} |-> ""]

\* A point of category c: with or without back-references of its own
PointOf(c, k, refs) ==
    LET base == [id |-> 10 * c + k]
    IN  CASE refs = "none"     -> base
          [] refs = "category" -> base @@ [category_id |-> c]
          [] OTHER             -> base @@ [category_id |-> c, scorecard_id |-> c \div 10]

\* A category of scorecard s with np points
CategoryOf(s, j, np, catRef, refs) ==
    LET c == 10 * s + j
        base == [id |-> c, points |-> [k \in 1..np |-> PointOf(c, k, refs)]]
    IN  IF catRef THEN base @@ [scorecard_id |-> s] ELSE base

\* Scorecard s with nc categories of np points each
ScorecardOf(s, nc, np, catRef, refs) ==
    [id |-> s, team_ids |-> NULL,
     categories |-> [j \in 1..nc |-> CategoryOf(s, j, np, catRef, refs)]]

\* What GET /scorecards can return
ScorecardLists ==
    {[s \in 1..n |-> ScorecardOf(s, shape[s][1], shape[s][2], catRef, refs)] :
        n \in {1, 2}, shape \in [1..2 -> (0..MaxChildren) \X (0..MaxChildren)],
        catRef \in BOOLEAN, refs \in {"none", "category", "both"}}

\* transform_base_dicts on the scorecards: explode categories, explode
\* points out of them, drop the nested columns, back to records
transform_scorecards(scorecards) ==
    LET cats == json_normalize(scorecards, "categories", NoMeta)
        pts  == json_normalize(to_dict(cats.rows), "points", NoMeta)
        sc   == drop(scorecards, {"categories", "team_ids"})
        sccs == drop(cats.rows, {"points"})
    IN  IF cats.err # "none" THEN [err |-> cats.err, tables |-> <<>>]
        ELSE IF pts.err # "none" THEN [err |-> pts.err, tables |-> <<>>]
        ELSE IF sc.err # "none" \/ sccs.err # "none" THEN [err |-> "KeyError", tables |-> <<>>]
        ELSE [err |-> "none",
              tables |-> [scorecards |-> to_dict(sc.rows),
                          scorecard_categories |-> to_dict(sccs.rows),
                          scorecard_points |-> to_dict(pts.rows)]]

\* A session of the list endpoint after enrichment; "scores" is attached
\* or not
SessionOf(i, attached, nScores) ==
    LET base == [id |-> i, reviewers |-> <<>>,
                 summary |-> << [session_id |-> i, text |-> 1] >>]
    IN  IF attached
        THEN base @@ [scores |-> [k \in 1..nScores |->
                                     [session_id |-> i, scorecard_id |-> 1, reviewer_id |-> 1,
                                      point_scores |-> << [scorecard_point_id |-> 1, value |-> 1] >>]]]
        ELSE base

\* Batches transform_session_data can be given; never empty
SessionBatches ==
    {[i \in 1..n |-> SessionOf(i, att[i], ns[i])] :
        n \in {1, 2}, att \in [1..2 -> BOOLEAN], ns \in [1..2 -> {0, 1}]}

\* transform_session_data: the reviewers, scores and summary explosions,
\* the drop of the nested columns, and the last drops
transform_session_data(batch) ==
    LET revs    == json_normalize(batch, "reviewers", [id |-> "session_id"])
        skipped == "scores" \notin DOMAIN batch[1]
        scores  == json_normalize(batch, "scores", NoMeta)
        points  == json_normalize(to_dict(scores.rows), "point_scores",
                                  [session_id |-> "session_id", scorecard_id |-> "scorecard_id",
                                   reviewer_id |-> "reviewer_id"])
        sums    == json_normalize(batch, "summary", NoMeta)
        ss      == drop(batch, {"reviewers", "scores", "summary"})
    IN  IF revs.err # "none" THEN [err |-> revs.err, tables |-> <<>>]
        ELSE IF ~skipped /\ scores.err # "none" THEN [err |-> scores.err, tables |-> <<>>]
        ELSE IF ~skipped /\ points.err # "none" THEN [err |-> points.err, tables |-> <<>>]
        ELSE IF sums.err # "none" THEN [err |-> sums.err, tables |-> <<>>]
        ELSE IF ss.err # "none" THEN [err |-> ss.err, tables |-> <<>>]
        ELSE IF skipped THEN [err |-> "KeyError", tables |-> <<>>]
        ELSE [err |-> "none",
              tables |-> [sessions |-> to_dict(ss.rows),
                          sessions_reviewers |-> to_dict(revs.rows),
                          sessions_scores |-> to_dict(points.rows),
                          sessions_summaries |-> to_dict(sums.rows)]]

flattenRest == <<dialect, loadVars, nLoads, startDt, daily, incPass, checkpoint, lastSynced, nRuns,
                 ckptWrites, runStore, dictStore, periodVars, windowVars, fetchVars, detailVars,
                 tCol, tIn, tOut, raceVars, envVars>>

\* transform_base_dicts is called; an exception ends the run
TransformBaseDicts ==
    /\ tStep = "raw"
    /\ nIn.kind = "dicts"
    /\ nOut' = transform_scorecards(nIn.data)
    /\ tStep' = "parsed"
    /\ stage' = IF nOut'.err = "none" THEN stage ELSE "FAILED"
    /\ UNCHANGED <<flattenRest, nIn>>

\* transform_session_data is called; an exception ends the run
TransformSessionData ==
    /\ tStep = "raw"
    /\ nIn.kind = "sessions"
    /\ nOut' = transform_session_data(nIn.data)
    /\ tStep' = "parsed"
    /\ stage' = IF nOut'.err = "none" THEN stage ELSE "FAILED"
    /\ UNCHANGED <<flattenRest, nIn>>

InitFlatten ==
    /\ InitCommon
    /\ NoArgs
    /\ NoFetch
    /\ test_mode = FALSE
    /\ checkpoint = NoCheckpoint
    /\ tCol = ""
    /\ tIn = <<>>
    /\ tOut = [err |-> "none", vals |-> <<>>]
    /\ tStep = "raw"
    /\ nIn \in {[kind |-> "dicts", data |-> d] : d \in ScorecardLists}
             \cup {[kind |-> "sessions", data |-> d] : d \in SessionBatches}
    /\ nOut = [err |-> "none", tables |-> <<>>]

NextFlatten == TransformBaseDicts \/ TransformSessionData

SpecFlatten == InitFlatten /\ [][NextFlatten]_vars

\* ------------------------------------------------------------------------
\* load2db on data the schema does not know (ETL/Load.py 62-110)
\* ------------------------------------------------------------------------
\* et_data with a row-set no table is declared for ("new_entity") and rows
\* with a field no column is declared for ("color", "model")
DriftInputs ==
    {[t \in ({"categories", "sessions_summaries"} \cup extra) |->
         IF t = "categories" THEN ca ELSE IF t = "sessions_summaries" THEN sm
         ELSE << [id |-> 1, name |-> 1] >>] :
        extra \in {{}, {"new_entity"}},
        ca \in { << [id |-> 1, name |-> 1, color |-> 1] >>,
                 << [id |-> 1, name |-> 1], [id |-> 2, name |-> 2, color |-> 1] >>,
                 << [name |-> 1, color |-> 1] >> },
        sm \in { <<>>, << [session_id |-> 1, text |-> 1, model |-> 1] >> }}

\* load(load_to, et_data=...) with such data
CallLoad2dbDrift ==
    /\ stage = "IDLE"
    /\ loadState # "open"
    /\ nLoads < MaxLoads
    /\ \E data \in DriftInputs : EnterLoad(data)
    /\ errs' = {}
    /\ nLoads' = nLoads + 1
    /\ UNCHANGED <<auxVars, dialect, runVars>>

NextDrift == CallLoad2dbDrift \/ LoadRow \/ RowRaises \/ Commit \/ CommitIntegrityError \/ CommitRaises

SpecDrift == InitUpsert /\ [][NextDrift]_vars

\* ------------------------------------------------------------------------
\* Two runs loading into the same SQL Server database (ETL/Load.py 62-181,
\* ETL/utils.py SessionContext 222-239, run-et-etl.py 183-200).  Each run
\* has a session of its own; a session sees the committed rows and its own
\* uncommitted writes.  An INSERT or UPDATE that touches a key or row
\* another session has written and not yet committed waits for that session.
\* ------------------------------------------------------------------------
Runs == {"a", "b"}

Other(w) == CHOOSE v \in Runs : v # w

\* Rows the two runs are given
RaceItems ==
    { <<"categories", [id |-> 1, name |-> 1]>>,
      <<"categories", [id |-> 1, name |-> 2]>>,
      <<"categories", [id |-> 2, name |-> 1]>>,
      <<"categories", [name |-> 1]>>,
      <<"sessions_summaries", [session_id |-> 1, text |-> 1]>> }

RaceInputs == {EtDataOf(items) : items \in SeqsUpTo(RaceItems, MaxRows) \ {<<>>}}

\* The rows the session of run w sees in table t
View(w, t) == (store[t] \ writers[w].del[t]) \cup writers[w].add[t]

RaceTable(w) == Tables[writers[w].ti]

RaceItem(w) == filtered_item(RaceTable(w), writers[w].data[RaceTable(w)][writers[w].ri])

RaceKey(w) == Restrict(RaceItem(w), KeyCols(RaceTable(w)))

raceRest == <<dialect, tx, etData, tblIdx, rowIdx, loadState, preStore, loadCommitted, reload, errs,
              nLoads, runVars, windowVars, fetchVars, detailVars, transformVars, envVars>>

\* load2db is entered: with SessionContext(SessionDB()) as session
RaceEnter(w) ==
    /\ writers[w].pc = "idle"
    /\ \E data \in RaceInputs :
          writers' = [writers EXCEPT ![w] =
                         [@ EXCEPT !.pc = "select", !.data = data, !.ti = SkipFrom(data, 1)]]
    /\ UNCHANGED <<store, raceRest>>

\* exit(-1) inside the with block: __exit__ rolls back, the process ends
RaceExit(w, e) ==
    [writers[w] EXCEPT !.pc = "failed", !.err = e, !.del = EmptyStore, !.add = EmptyStore,
                       !.inserted = {}]

\* The key check and the SELECT by key of one row
RaceSelect(w) ==
    /\ writers[w].pc = "select"
    /\ LET t == RaceTable(w)
           fi == RaceItem(w)
           unique_columns == KeyCols(t)
           missed_in_loading_data == {c \in unique_columns : c \notin DOMAIN fi}
       IN  writers' = [writers EXCEPT ![w] =
              IF missed_in_loading_data # {}
              THEN RaceExit(w, "missing_key")
              ELSE [@ EXCEPT !.pc = "act",
                             !.existing = \E r \in View(w, t) :
                                             \A c \in unique_columns : r[c] = fi[c]]]
    /\ UNCHANGED <<store, raceRest>>

\* Variant: no constraint is checked against rows of the other session
InsertOutcomeUnchecked(w, t, fi) ==
    LET own   == View(w, t)
        alone == DbInsert("mssql", t, own, fi)
    IN  IF alone.err # "none"
        THEN [kind |-> "error", err |-> alone.err, rows |-> own]
        ELSE [kind |-> "ok", err |-> "none", rows |-> alone.rows]

\* INSERT of fi by run w: an error against the rows it sees, a wait when
\* only a row the other session holds uncommitted is in the way
InsertOutcome(w, t, fi) ==
    LET own   == View(w, t)
        held  == writers[Other(w)].add[t]
        alone == DbInsert("mssql", t, own, fi)
        all   == DbInsert("mssql", t, own \cup held, fi)
    IN  IF alone.err # "none"
        THEN [kind |-> "error", err |-> alone.err, rows |-> own]
        ELSE IF all.err # "none"
        THEN [kind |-> "blocked", err |-> "none", rows |-> own]
        ELSE [kind |-> "ok", err |-> "none", rows |-> own \cup (all.rows \ (own \cup held))]

\* UPDATE by key of run w: waits when the other session has changed the row
UpdateOutcome(w, t, fi) ==
    LET own == View(w, t)
        unique_columns == KeyCols(t)
        hit == {r \in own : \A c \in unique_columns : r[c] = fi[c]}
        update_values == Restrict(fi, (DOMAIN fi) \ unique_columns)
        res == DbUpdate("mssql", t, own, hit, update_values)
    IN  IF DOMAIN update_values = {}
        THEN [kind |-> "ok", err |-> "none", rows |-> own]
        ELSE IF hit \cap writers[Other(w)].del[t] # {}
        THEN [kind |-> "blocked", err |-> "none", rows |-> own]
        ELSE IF res.err # "none"
        THEN [kind |-> "error", err |-> res.err, rows |-> own]
        ELSE [kind |-> "ok", err |-> "none", rows |-> res.rows]

\* if existing_record: UPDATE, else: INSERT
Outcome(w) ==
    IF writers[w].existing THEN UpdateOutcome(w, RaceTable(w), RaceItem(w))
    ELSE InsertOutcome(w, RaceTable(w), RaceItem(w))

\* Both runs have read "absent" for the same key and neither has inserted it
BothReadAbsent(w) ==
    LET v == Other(w)
    IN  /\ writers[w].pc = "act" /\ ~writers[w].existing
        /\ writers[v].pc = "act" /\ ~writers[v].existing
        /\ RaceTable(v) = RaceTable(w)
        /\ RaceKey(v) = RaceKey(w)

\* The statement chosen by the SELECT executes; on an exception the except
\* branch logs and calls exit(-1)
RaceAct(w) ==
    /\ writers[w].pc = "act"
    /\ Outcome(w).kind # "blocked"
    /\ LET s == writers[w]
           t == RaceTable(w)
           o == Outcome(w)
           last == s.ri = Len(s.data[t])
           ti2 == IF last THEN SkipFrom(s.data, s.ti + 1) ELSE s.ti
       IN  writers' = [writers EXCEPT ![w] =
              IF o.kind = "error"
              THEN RaceExit(w, o.err)
              ELSE [@ EXCEPT !.del = [@ EXCEPT ![t] = store[t] \ o.rows],
                             !.add = [@ EXCEPT ![t] = o.rows \ store[t]],
                             !.inserted = IF s.existing THEN @ ELSE @ \cup {<<t, RaceKey(w)>>},
                             !.raced = @ \/ BothReadAbsent(w),
                             !.ri = IF last THEN 1 ELSE s.ri + 1,
                             !.ti = ti2,
                             !.pc = IF ti2 > Len(Tables) THEN "commit" ELSE "select"]]
    /\ UNCHANGED <<store, raceRest>>

\* Each session waits for the other: the server ends one statement with a
\* deadlock error, which the except branch turns into exit(-1)
RaceDeadlock(w) ==
    /\ \A v \in Runs : writers[v].pc = "act" /\ Outcome(v).kind = "blocked"
    /\ writers' = [writers EXCEPT ![w] = RaceExit(w, "operational")]
    /\ UNCHANGED <<store, raceRest>>

\* __exit__ without exception: session.commit(); load2db returns
RaceCommit(w) ==
    /\ writers[w].pc = "commit"
    /\ store' = [t \in TableSet |-> View(w, t)]
    /\ writers' = [writers EXCEPT ![w] =
                      [@ EXCEPT !.pc = "checkpoint", !.del = EmptyStore, !.add = EmptyStore]]
    /\ UNCHANGED raceRest

\* The run ends: dt2file writes the checkpoint
RaceCheckpoint(w) ==
    /\ writers[w].pc = "checkpoint"
    /\ writers' = [writers EXCEPT ![w] = [@ EXCEPT !.pc = "done", !.ckpt = TRUE]]
    /\ UNCHANGED <<store, raceRest>>

InitRace ==
    /\ InitUpsert
    /\ dialect = "mssql"

NextRace ==
    \E w \in Runs :
        \/ RaceEnter(w)
        \/ RaceSelect(w)
        \/ RaceAct(w)
        \/ RaceDeadlock(w)
        \/ RaceCommit(w)
        \/ RaceCheckpoint(w)

SpecRace == InitRace /\ [][NextRace]_vars

\* ------------------------------------------------------------------------
\* Runs over time: the upstream keeps changing categories while runs fetch
\* the dictionaries, name the updated categories and write the checkpoint
\* (run-et-etl.py 64-105 and 167-201)
\* ------------------------------------------------------------------------
clockRest == <<dialect, loadVars, nLoads, startDt, incPass, runStore, dictStore, window, fetched,
               windowVars, fetchVars, detailVars, transformVars, raceVars, matching, sinkVars>>

\* The upstream changes a category: updated_at is the time of the change
UpstreamUpdate ==
    /\ now < MaxClock
    /\ \E c \in CategoryIds : upstream' = [upstream EXCEPT ![c] = now + 1]
    /\ now' = now + 1
    /\ UNCHANGED <<clockRest, stage, daily, lastSynced, checkpoint, baseCats, calls, nRuns,
                   ckptWrites, dictsAt, syncedAt>>

\* __main__: daily or historical mode, file2dt
ClockStartRun ==
    /\ stage \in {"IDLE", "DONE", "FAILED"}
    /\ nRuns < MaxRuns
    /\ daily' \in BOOLEAN
    /\ lastSynced' = file2dt(checkpoint)
    /\ syncedAt' = IF stage = "DONE" /\ daily THEN [kind |-> "dt", dt |-> dictsAt] ELSE syncedAt
    /\ stage' = "FETCHING_DICTS"
    /\ nRuns' = nRuns + 1
    /\ ckptWrites' = 0
    /\ calls' = <<>>
    /\ baseCats' = <<>>
    /\ UNCHANGED <<clockRest, checkpoint, now, upstream, dictsAt>>

\* etl_base_dicts: the categories as the upstream holds them now
ClockFetchDicts ==
    /\ stage = "FETCHING_DICTS"
    /\ baseCats' = [c \in CategoryIds |-> [id |-> c, updated_at |-> upstream[c]]]
    /\ dictsAt' = now
    /\ stage' = "FETCHING_SESSIONS"
    /\ UNCHANGED <<clockRest, daily, lastSynced, checkpoint, calls, nRuns, ckptWrites, now,
                   upstream, syncedAt>>

\* etl_sessions_period returns in a daily run; etl_sessions_incremental
\* names the updated categories, or raises when file2dt returned None
ClockIncremental ==
    /\ stage = "FETCHING_SESSIONS"
    /\ daily
    /\ IF lastSynced.kind = "none"
       THEN /\ stage' = "FAILED"
            /\ UNCHANGED calls
       ELSE /\ stage' = "LOADING_INCREMENTAL"
            /\ calls' = <<updated_categories(baseCats, lastSynced)>>
    /\ UNCHANGED <<clockRest, daily, lastSynced, checkpoint, baseCats, nRuns, ckptWrites, now,
                   upstream, dictsAt, syncedAt>>

\* The last stage returns: dt2file(datetime.now())
ClockFinish ==
    /\ \/ stage = "LOADING_INCREMENTAL"
       \/ stage = "FETCHING_SESSIONS" /\ ~daily
    /\ now < MaxClock
    /\ now' = now + 1
    /\ checkpoint' = [kind |-> "dt", dt |-> now + 1]
    /\ ckptWrites' = ckptWrites + 1
    /\ stage' = "DONE"
    /\ UNCHANGED <<clockRest, daily, lastSynced, baseCats, calls, nRuns, upstream, dictsAt, syncedAt>>

\* An extract, transform or load of the run fails: the process ends
ClockFails ==
    /\ stage \in {"FETCHING_DICTS", "FETCHING_SESSIONS", "LOADING_INCREMENTAL"}
    /\ stage' = "FAILED"
    /\ UNCHANGED <<clockRest, daily, lastSynced, checkpoint, baseCats, calls, nRuns, ckptWrites,
                   now, upstream, dictsAt, syncedAt>>

InitClock ==
    /\ InitCommon
    /\ NoTransform
    /\ NoArgs
    /\ NoFetch
    /\ test_mode = FALSE
    /\ checkpoint \in {NoCheckpoint, [kind |-> "corrupt", dt |-> 0]}

NextClock ==
    \/ UpstreamUpdate
    \/ ClockStartRun
    \/ ClockFetchDicts
    \/ ClockIncremental
    \/ ClockFinish
    \/ ClockFails

SpecClock == InitClock /\ [][NextClock]_vars

\* ------------------------------------------------------------------------
\* get_et_sessions against an upstream that honours skip and limit
\* (ETL/Extract.py 41-64)
\* ------------------------------------------------------------------------
\* Count of response["items"] for ?skip=sk&limit=page_limit when the window
\* holds n records
HonestCount(n, sk) ==
    IF n - sk >= page_limit THEN page_limit ELSE IF n > sk THEN n - sk ELSE 0

\* A /sessions GET is answered with the records after the offset
HonestPage ==
    /\ fPhase = "request"
    /\ fKind = "sessions"
    /\ PageBody(HonestCount(matching, skip))

InitPaging ==
    /\ InitProcess
    /\ NoTransform
    /\ NoArgs
    /\ NoFetch
    /\ test_mode \in BOOLEAN
    /\ checkpoint = NoCheckpoint
    /\ matching \in 0..MaxMatching

NextPaging == EnterFetch \/ HonestPage \/ DictResponds

SpecPaging == InitPaging /\ [][NextPaging]_vars /\ WF_vars(NextPaging)

\* ------------------------------------------------------------------------
\* The destination of the loads of a run (Load.py 185-214, run-et-etl.py
\* 13-62 and 183-201)
\* ------------------------------------------------------------------------
\* Values of the --load-to argument: argparse accepts any string
LoadTos == {"db", "file", "looker", "s3", "fi"}

\* Destinations the repository implements
SupportedDestinations == {"db", "file"}

\* s in "file": the substrings of "file"
InFile(s) == s \in {"", "f", "i", "l", "e", "fi", "il", "le", "fil", "ile", "file"}

\* default_converter of load2file: a pd.Timestamp becomes its isoformat() string
default_converter(col, v) == IF col = "updated_at" THEN [isoformat |-> v] ELSE v

\* json.dump(et_data, default=default_converter): what the file holds
json_dump(data) ==
    [t \in DOMAIN data |->
        [i \in 1..Len(data[t]) |->
            [c \in DOMAIN data[t][i] |-> default_converter(c, data[t][i][c])]]]

\* file_name of load2file
file_name(data) == IF "sessions" \in DOMAIN data THEN "sessions.json" ELSE "dicts.json"

\* Variant: the file is opened for appending, the first content stays
load2file_keeps(fs, data) ==
    IF file_name(data) \in DOMAIN fs THEN fs
    ELSE (file_name(data) :> json_dump(data)) @@ fs

\* load2file: open(file_name, 'w') truncates, json.dump writes the whole et_data
load2file(fs, data) ==
    (file_name(data) :> json_dump(data)) @@ [n \in DOMAIN fs \ {file_name(data)} |-> fs[n]]

\* load: three independent tests of load_to, in this order
load(sel, db, fs, data) ==
    LET r == ApplyTables(dialect, db, data, 1)
    IN  IF sel = "db" /\ ~r.ok
        THEN [err |-> "db", db |-> db, files |-> fs, sinks |-> {}]
        ELSE IF sel = "looker"
        THEN [err |-> "TypeError", db |-> db, files |-> fs, sinks |-> {}]
        ELSE [err   |-> "none",
              db    |-> IF sel = "db" THEN r.db ELSE db,
              files |-> IF InFile(sel) THEN load2file(fs, data) ELSE fs,
              sinks |-> (IF sel = "db" THEN {"db"} ELSE {}) \cup
                        (IF InFile(sel) THEN {"file"} ELSE {})]

\* A transformed session fetch: child rows come only with sessions
SinkSessionFetches ==
    {d \in SessionFetches : d["sessions"] = <<>> => d["sessions_summaries"] = <<>>}

sinkRest == <<tx, etData, tblIdx, rowIdx, loadState, preStore, loadCommitted, reload, nLoads,
              dialect, startDt, lastSynced, runStore, dictStore, window, calls, fetched, baseCats,
              windowVars, fetchVars, detailVars, transformVars, raceVars, clockVars, matching>>

\* __main__ up to etl_base_dicts: parse_args gives load_to and the mode
SinkStartRun ==
    /\ stage \in {"IDLE", "DONE", "FAILED"}
    /\ nRuns < MaxRuns
    /\ load_to' \in LoadTos
    /\ daily' \in BOOLEAN
    /\ stage' = "LOADING_DICTS"
    /\ incPass' = 0
    /\ ckptWrites' = 0
    /\ errs' = {}
    /\ sunk' = <<>>
    /\ nRuns' = nRuns + 1
    /\ UNCHANGED <<sinkRest, store, files, checkpoint>>

\* The call made by load(load_to, et_data=data), logged with the sinks it reached
SinkCall(data, r) ==
    /\ store' = r.db
    /\ files' = r.files
    /\ sunk' = IF r.err = "none" THEN Append(sunk, [data |-> data, sinks |-> r.sinks]) ELSE sunk

\* An exception of load leaves __main__: no later stage, no checkpoint
SinkRaises(r) ==
    /\ stage' = "FAILED"
    /\ errs' = {r.err}
    /\ UNCHANGED <<incPass, checkpoint, ckptWrites>>

\* etl_base_dicts: the dictionaries are always given to load
SinkDicts ==
    /\ stage = "LOADING_DICTS"
    /\ \E data \in DictFetches :
          LET r == load(load_to, store, files, data)
          IN  /\ SinkCall(data, r)
              /\ IF r.err = "none"
                 THEN /\ stage' = "FETCHING_SESSIONS"
                      /\ UNCHANGED <<incPass, checkpoint, ckptWrites, errs>>
                 ELSE SinkRaises(r)
    /\ UNCHANGED <<sinkRest, load_to, daily, nRuns>>

\* etl_sessions_period: transform and load only "if et_sessions"
SinkPeriod ==
    /\ stage \in {"FETCHING_SESSIONS", "FETCHING_INCREMENTAL"}
    /\ \E data \in SinkSessionFetches :
          IF data["sessions"] = <<>>
          THEN /\ PeriodReturns
               /\ UNCHANGED <<store, files, sunk>>
          ELSE LET r == load(load_to, store, files, data)
               IN  /\ SinkCall(data, r)
                   /\ IF r.err = "none" THEN PeriodReturns ELSE SinkRaises(r)
    /\ UNCHANGED <<sinkRest, load_to, daily, nRuns>>

InitSink ==
    /\ InitCommon
    /\ NoArgs
    /\ NoFetch
    /\ NoTransform
    /\ test_mode = FALSE
    /\ checkpoint = NoCheckpoint

NextSink == SinkStartRun \/ SinkDicts \/ SinkPeriod

SpecSink == InitSink /\ [][NextSink]_vars

\* ------------------------------------------------------------------------
\* The dictionary stage on empty dictionaries and the default user
\* (Transform.py 20-27 and 59-163, run-et-etl.py 13-30)
\* ------------------------------------------------------------------------
\* The dictionaries extract_base_dicts returns
BaseDictNames == {"agents", "categories", "groups", "labels", "scorecards", "tags", "users"}

\* et_default_user, with the columns only fetched users have left unset
\* by pd.concat (NaN, replaced by None)
et_default_user == [id |-> 0, full_name |-> "Ender Turing", agent_id |-> NULL]

\* Users of the upstream: ids are unique there, agent_id may be unset
UserUniverse == {[id |-> i, full_name |-> "user", agent_id |-> a] : i \in 0..2, a \in {NULL, 1}}

UserLists ==
    {u \in SeqsUpTo(UserUniverse, MaxUsers) :
        \A i, j \in DOMAIN u : u[i]["id"] = u[j]["id"] => i = j}

\* What extract_base_dicts can return: every dictionary may come back empty;
\* the nested columns of the other dictionaries are flattened by
\* transform_scorecards and json_normalize above, here their rows carry the id
BaseDictFetches ==
    {[n \in BaseDictNames |->
        IF n = "users" THEN u ELSE IF n \in empty THEN <<>> ELSE << [id |-> 1] >>] :
        u \in UserLists, empty \in SUBSET (BaseDictNames \ {"users"})}

\* Variant: the default user is appended whatever the fetched ids
add_default_user_always(users) ==
    IF users = <<>> THEN <<>> ELSE Append(users, et_default_user)

\* The users branch: an empty frame for no users; otherwise
\* "if 0 not in df['id'].values" pd.concat appends et_default_user as the last row
add_default_user(users) ==
    IF users = <<>> THEN <<>>
    ELSE IF \A i \in DOMAIN users : users[i]["id"] # 0
         THEN Append(users, et_default_user)
         ELSE users

\* Variant: a frame that was never built is skipped by the column removal
base_dicts_error_skips_absent(et) ==
    IF et["agents"] = <<>> \/ et["categories"] = <<>>
       \/ et["scorecards"] = <<>> \/ et["tags"] = <<>>
    THEN "IndexError"
    ELSE "none"

\* The first exception of transform_base_dicts: et_data[name][0] of an empty
\* list in the arguments of logger.debug (agents, categories, scorecards,
\* tags, in this order), then df_et_data[name] of a frame that was never
\* built, in the column removal (groups, labels)
base_dicts_error(et) ==
    IF et["agents"] = <<>> \/ et["categories"] = <<>>
       \/ et["scorecards"] = <<>> \/ et["tags"] = <<>>
    THEN "IndexError"
    ELSE IF et["groups"] = <<>> \/ et["labels"] = <<>>
    THEN "KeyError"
    ELSE "none"

\* transform_base_dicts on the fetched dictionaries
transform_base_dicts(et) ==
    IF base_dicts_error(et) # "none"
    THEN [err |-> base_dicts_error(et), tables |-> <<>>]
    ELSE [err    |-> "none",
          tables |-> [n \in BaseDictNames |->
                         IF n = "users" THEN add_default_user(et[n]) ELSE et[n]]]

dictsRest == <<tx, etData, tblIdx, rowIdx, loadState, preStore, loadCommitted, reload, nLoads,
               dialect, startDt, lastSynced, runStore, dictStore, window, calls, fetched, baseCats,
               windowVars, fetchVars, detailVars, tCol, tIn, tOut, tStep, raceVars, clockVars,
               matching>>

\* __main__ up to etl_base_dicts, once
DictsStartRun ==
    /\ stage = "IDLE"
    /\ load_to' \in SupportedDestinations
    /\ daily' \in BOOLEAN
    /\ stage' = "FETCHING_DICTS"
    /\ nRuns' = nRuns + 1
    /\ UNCHANGED <<dictsRest, nIn, nOut, store, files, sunk, errs, incPass, checkpoint, ckptWrites>>

\* extract_base_dicts returns
DictsExtracted ==
    /\ stage = "FETCHING_DICTS"
    /\ \E et \in BaseDictFetches : nIn' = [kind |-> "dicts", data |-> et]
    /\ stage' = "TRANSFORMING_DICTS"
    /\ UNCHANGED <<dictsRest, nOut, store, files, sunk, errs, incPass, checkpoint, ckptWrites,
                   load_to, daily, nRuns>>

\* transform_base_dicts returns or raises; log_exceptions raises again
DictsTransformed ==
    /\ stage = "TRANSFORMING_DICTS"
    /\ nOut' = transform_base_dicts(nIn.data)
    /\ IF nOut'.err = "none"
       THEN stage' = "LOADING_DICTS" /\ UNCHANGED errs
       ELSE stage' = "FAILED" /\ errs' = {nOut'.err}
    /\ UNCHANGED <<dictsRest, nIn, store, files, sunk, incPass, checkpoint, ckptWrites,
                   load_to, daily, nRuns>>

\* load(load_to, et_data=_et_data_base_dicts) of etl_base_dicts
DictsLoad ==
    /\ stage = "LOADING_DICTS"
    /\ nIn.kind = "dicts"
    /\ LET r == load(load_to, store, files, nOut.tables)
       IN  /\ SinkCall(nOut.tables, r)
           /\ IF r.err = "none"
              THEN /\ stage' = "FETCHING_SESSIONS"
                   /\ UNCHANGED <<incPass, checkpoint, ckptWrites, errs>>
              ELSE SinkRaises(r)
    /\ UNCHANGED <<dictsRest, nIn, nOut, load_to, daily, nRuns>>

InitDicts == InitSink

NextDicts == DictsStartRun \/ DictsExtracted \/ DictsTransformed \/ DictsLoad \/ SinkPeriod

SpecDicts == InitDicts /\ [][NextDicts]_vars

\* ------------------------------------------------------------------------
\* Properties
\* ------------------------------------------------------------------------
KeyOf(t, r) == [c \in KeyCols(t) |-> r[c]]

AtRow == loadState = "open" /\ tblIdx <= Len(Tables)

LoadEnded == loadState \in {"returned", "exit", "raised"}

\* C1: no table ever holds two rows with the same value of its uniqueness
\* key (None compared as a value).  Stated as claimed; sqlite violates it.
C1_UniqueKey ==
    \A t \in TableSet : \A r, s \in store[t] : KeyOf(t, r) = KeyOf(t, s) => r = s

\* C2: a row-set loaded into an empty store and loaded again unchanged
\* leaves the store as it was after the first load.  Stated as claimed;
\* sqlite violates it for rows whose key holds None or lacks a key column.
C2_Idempotent == (reload /\ LoadEnded) => store = preStore

\* C3: when the incoming row's key equals the key of a stored row, the stored
\* row keeps its key and every column the incoming row does not supply, and
\* (the key found by the strategy's lookup: no None in it, or mssql) takes
\* the incoming value of every supplied non-key column, with no row added.
RowApplied ==
    /\ AtRow
    /\ loadState' = "open"
    /\ <<tblIdx', rowIdx'>> # <<tblIdx, rowIdx>>

C3_Merge(t, item, before, after) ==
    LET fi == filtered_item(t, item)
        supplied == (DOMAIN fi) \ KeyCols(t)
        found == dialect = "mssql" \/ \A c \in KeyCols(t) : fi[c] # NULL
    IN  \A r \in before :
           (KeyCols(t) \subseteq DOMAIN fi /\ \A c \in KeyCols(t) : r[c] = fi[c]) =>
              \E r2 \in after :
                 /\ r2["id"] = r["id"]
                 /\ \A c \in get_columns(t) \ supplied : r2[c] = r[c]
                 /\ found => /\ \A c \in supplied : r2[c] = fi[c]
                             /\ Cardinality(after) = Cardinality(before)

C3_PartialUpdate ==
    [][RowApplied => C3_Merge(CurTable, CurItem, tx[CurTable], tx'[CurTable])]_vars

\* C3 witness: {id:1, name:1, position:1} then {id:1, name:2} left
\* name 2 next to the position of the first row
C3_Witness ==
    /\ loadState = "returned"
    /\ loadCommitted
    /\ \E r \in store["categories"] :
          r["id"] = 1 /\ r["name"] = 2 /\ r["position"] = 1

\* C4: under either strategy a row lacking a uniqueness-key column ends the
\* load at that row with exit and nothing of the load in the store.
\* Stated as claimed; the sqlite branch has no such check.
C4_MissingKeyFatal ==
    [][(AtRow /\ ~(KeyCols(CurTable) \subseteq DOMAIN CurItem)) =>
          /\ loadState' = "exit"
          /\ store' = preStore
          /\ <<tblIdx', rowIdx'>> = <<tblIdx, rowIdx>>]_vars

\* C5: a load call is atomic over its tables: nothing of it is visible while
\* it runs; once it has ended the store holds either the result of all its
\* rows, or, if a row or the commit failed, exactly what it held before.
C5_LoadAtomic ==
    /\ loadState = "open" => store = preStore
    /\ loadState \in {"exit", "raised"} => store = preStore
    /\ loadState = "returned" =>
          IF loadCommitted
          THEN LET all == ApplyTables(dialect, preStore, etData, 1)
               IN  all.ok /\ store = all.db
          ELSE store = preStore

\* C5 witness: a load that wrote the rows of one table and failed in a later one
C5_Witness ==
    /\ loadState = "exit"
    /\ tblIdx <= Len(Tables)
    /\ SkipFrom(etData, 1) < tblIdx
    /\ store = preStore

DictPart(db) == [t \in DictTables |-> db[t]]

LaterLoadFailed ==
    /\ stage = "FAILED"
    /\ loadState \in {"exit", "raised"}
    /\ "sessions" \in DOMAIN etData

C7_CheckpointAfterSuccess ==
    /\ ckptWrites <= 1
    /\ ckptWrites = 1 => (stage = "DONE" /\ errs = {})
    /\ stage = "FAILED" => (ckptWrites = 0 /\ file2dt(checkpoint) = lastSynced)

\* C8 as claimed: after an integrity violation in a load (at a row or at
\* commit) the load is not reported done, the store is as before the load,
\* no later stage runs and the checkpoint is not written.
C8_IntegrityAborts ==
    (errs \cap {"integrity", "integrity_commit"} # {}) =>
        /\ loadState = "exit"
        /\ stage \in LoadingStages \cup {"FAILED"}
        /\ store = preStore
        /\ ckptWrites = 0

\* C9: stages follow the order IDLE, FETCHING_DICTS, LOADING_DICTS,
\* FETCHING_SESSIONS, LOADING_SESSIONS, FETCHING_INCREMENTAL,
\* LOADING_INCREMENTAL (once per filter), DONE; the session fetch starts only
\* when the dictionary load has returned, the incremental fetch only when the
\* period stage has returned, and nothing follows FAILED within the run.
StageRank(st, pass) ==
    CASE st = "IDLE"                 -> 0
      [] st = "FETCHING_DICTS"       -> 1
      [] st = "LOADING_DICTS"        -> 2
      [] st = "FETCHING_SESSIONS"    -> 3
      [] st = "LOADING_SESSIONS"     -> 4
      [] st = "FETCHING_INCREMENTAL" -> 3 + 2 * pass
      [] st = "LOADING_INCREMENTAL"  -> 4 + 2 * pass
      [] st = "DONE"                 -> 9
      [] OTHER                       -> 10

SameRun == nRuns' = nRuns

C9_StageOrder ==
    [][SameRun =>
          /\ stage = "FAILED" => stage' = "FAILED"
          /\ stage = "DONE" => stage' = "DONE"
          /\ <<stage', incPass'>> # <<stage, incPass>> =>
                StageRank(stage', incPass') > StageRank(stage, incPass)
          /\ (stage' = "FETCHING_SESSIONS" /\ stage # "FETCHING_SESSIONS") =>
                (stage = "LOADING_DICTS" /\ loadState = "returned")
          /\ (stage' = "FETCHING_INCREMENTAL" /\ incPass' = 1 /\ incPass = 0) =>
                \/ stage = "FETCHING_SESSIONS"
                \/ stage = "LOADING_SESSIONS" /\ loadState = "returned"
          /\ (stage' \in LoadingStages /\ stage' # stage) =>
                StageRank(stage', incPass') = StageRank(stage, incPass) + 1]_vars

\* C9 witness: a daily run that went through every stage and both passes
C9_Witness == stage = "DONE" /\ daily /\ incPass = 2 /\ ckptWrites = 1

\* C10: the incremental stage is entered exactly when the run is a daily run
\* (no explicit start date): the period stage is followed by the incremental
\* fetch in a daily run and by the end of the run in a historical one, and a
\* historical run is never in an incremental state.
InIncremental == stage \in {"FETCHING_INCREMENTAL", "LOADING_INCREMENTAL"}

PeriodStageEnds ==
    /\ SameRun
    /\ stage \in {"FETCHING_SESSIONS", "LOADING_SESSIONS"}
    /\ stage' \notin {"FETCHING_SESSIONS", "LOADING_SESSIONS", "FAILED"}

C10_IncrementalIffDaily ==
    /\ [](daily <=> startDt = "None")
    /\ []((InIncremental \/ incPass > 0) => startDt = "None")
    /\ [][PeriodStageEnds =>
             IF startDt = "None" THEN stage' = "FETCHING_INCREMENTAL" /\ incPass' = 1
             ELSE stage' = "DONE" /\ incPass' = 0]_vars

\* C10 witness: a run without start date in its incremental stage
C10_Witness == stage = "LOADING_INCREMENTAL" /\ startDt = "None" /\ incPass = 2

\* C11: when a session fetch returns zero records, transform and load are
\* not called for that period (no load is entered, the session is untouched),
\* no error is recorded, and the run goes to its next stage: the incremental
\* fetch, or the checkpoint write and DONE.
ZeroFetch == Len(calls') = Len(calls) + 1 /\ fetched' = 0

C11_EmptyFetchSkipsLoad ==
    [][ZeroFetch =>
          /\ <<store, tx, etData, tblIdx, rowIdx, loadState, preStore, loadCommitted>>'
                = <<store, tx, etData, tblIdx, rowIdx, loadState, preStore, loadCommitted>>
          /\ errs' = errs
          /\ stage' = IF stage = "FETCHING_SESSIONS"
                      THEN (IF daily THEN "FETCHING_INCREMENTAL" ELSE "DONE")
                      ELSE (IF incPass = 1 THEN "FETCHING_INCREMENTAL" ELSE "DONE")
          /\ stage' = "DONE" => ckptWrites' = ckptWrites + 1]_vars

\* C11 witness: a historical run whose period fetch was empty ended in DONE
\* without any load call
C11_Witness ==
    /\ stage = "DONE"
    /\ ~daily
    /\ Len(calls) = 1
    /\ fetched = 0
    /\ loadState = "none"
    /\ ckptWrites = 1

\* C12: the incremental calls of a run use the window
\* [stop - incremental_sync_n_days, stop] with the stop of the period call;
\* the first of them carries the manual-scoring filter, the second the
\* categories filter, and a daily run that ends has made exactly one of each,
\* also when no category is named; a historical run makes none.
C12_IncrementalWindowAndOrder ==
    /\ Len(calls) <= 3
    /\ \A i \in 1..Len(calls) :
          /\ calls[i].stop = window[2]
          /\ i = 1 => calls[i].filters = "None" /\ calls[i].start = window[1]
          /\ i > 1 => calls[i].start = MinusDays(calls[1].stop, incremental_sync_n_days)
          /\ i = 2 => calls[i].filters = "is_scored,manual"
          /\ i = 3 => calls[i].filters = "categories"
    /\ ~daily => Len(calls) <= 1
    /\ (stage = "DONE" /\ daily) => Len(calls) = 3

\* C12 witness: a daily run ended after both incremental calls, the second
\* naming no category
C12_Witness ==
    /\ stage = "DONE"
    /\ daily
    /\ Len(calls) = 3
    /\ calls[3].ids = <<>>
    /\ calls[2].start.d = calls[1].stop.d - 30

\* C13: the categories filter names exactly the ids of the categories of this
\* run's dictionary stage whose updated_at is strictly later than the
\* checkpoint read at the start of the run, and every category when no
\* checkpoint file existed.
C13_CategoryFilter ==
    \A i \in 1..Len(calls) :
        calls[i].filters = "categories" =>
            /\ baseCats # <<>>
            /\ SeqToSet(calls[i].ids) =
                  {baseCats[k]["id"] : k \in {j \in 1..Len(baseCats) :
                       \/ lastSynced.kind = "min"
                       \/ lastSynced.kind = "dt" /\ baseCats[j]["updated_at"] > lastSynced.dt}}
            /\ lastSynced.kind = "min" =>
                  SeqToSet(calls[i].ids) = {baseCats[k]["id"] : k \in 1..Len(baseCats)}

\* C13 witness: a filter that names one of the two categories of the run
C13_Witness ==
    /\ Len(calls) = 3
    /\ Len(baseCats) = 2
    /\ calls[3].ids = <<1>>
    /\ lastSynced.kind = "dt"

\* C14 as claimed: the value read from the checkpoint file is always an
\* instant (the persisted one or the minimum), and it never makes a later
\* stage fail.
C14_CheckpointReadIsInstant ==
    /\ lastSynced.kind \in {"min", "dt"}
    /\ "type_error" \notin errs

\* C15 as claimed: for start <= stop, split_half_days returns two windows per
\* calendar day from start's day to stop's day, 00:00-12:00 then 12:01-23:59,
\* ascending, which cover every minute from start's day 00:00 to stop's day
\* 23:59 once (each window begins one minute after the previous one ends).
Adjacent(w1, w2) ==
    \/ w2.day = w1.day /\ w2.from = w1.to + 1
    \/ w2.day = w1.day + 1 /\ w1.to = 1439 /\ w2.from = 0

C16_RunWindow ==
    wStep \in {"parsed", "split"} =>
        /\ ~Truthy(argStop) => window[2] = DT(today.d - 1, today.t)
        /\ Truthy(argStop) => window[2] = str2dt(argStop)
        /\ ~Truthy(startDt) => window[1] = window[2]
        /\ Truthy(startDt) => window[1] = str2dt(startDt)

\* C16 witness: a daily window, and a historical window up to yesterday
C16_Witness ==
    /\ wStep = "parsed"
    /\ startDt = "2024-05-01"
    /\ argStop = "None"
    /\ window = <<DT(122, 0), DT(today.d - 1, today.t)>>

\* Records of window w among the sessions received so far
RecvInWindow(w) == Cardinality({k \in 1..Len(sessions) : sessions[k][1] = w})

\* A /sessions GET is pending
PagePending == fKind = "sessions" /\ fPhase = "request"

\* A step in which a /sessions GET returned its page
PageStep ==
    /\ PagePending
    /\ fPhase' # "raised"
    /\ wIdx' # wIdx \/ page_number' # page_number \/ fPhase' = "returned"

\* Count of the page a PageStep received
PageCount == Len(sessions') - Len(sessions)

\* The page loop of the window ended with this page
TreatedAsLast == wIdx' # wIdx \/ fPhase' = "returned"

\* The offsets of one window: 0 first, then the number of records received
\* so far for that window, strictly increasing
OffsetsFollowReceived ==
    /\ [](PagePending => skip = RecvInWindow(wIdx) /\ (page_number = 1 <=> skip = 0))
    /\ [][PageStep /\ ~TreatedAsLast => skip' > skip /\ skip' = skip + PageCount /\ wIdx' = wIdx]_vars
    /\ [][PageStep /\ wIdx' # wIdx => skip' = 0 /\ wIdx' = wIdx + 1]_vars

\* The result is the pages in request order: windows in order, and in each
\* window the records 1, 2, ... of the upstream without gap or repeat
Concatenated ==
    /\ [](\A k \in 1..Len(sessions) :
            IF k = 1 \/ sessions[k][1] # sessions[IF k = 1 THEN 1 ELSE k - 1][1]
            THEN sessions[k][2] = 1 /\ (k > 1 => sessions[k][1] > sessions[k - 1][1])
            ELSE sessions[k][2] = sessions[k - 1][2] + 1)
    /\ [][PageStep => sessions' = sessions \o SessionPage(wIdx, skip, PageCount)]_vars

\* C17 as stated: offsets start at 0 and equal the records received so far
\* in the window, a page is last exactly when its count is strictly less
\* than the page size, and the result concatenates every page of every
\* window in request order.
C17_PaginationAsStated ==
    /\ OffsetsFollowReceived
    /\ Concatenated
    /\ [][PageStep => (TreatedAsLast <=> PageCount < page_limit)]_vars
    /\ [](fKind = "sessions" /\ fPhase = "returned" => wIdx = Len(halfDays) + 1)

\* C17 (amended): outside test mode a page is last exactly when its count
\* differs from the page size and every window is fetched; in test mode
\* the first page of the first window is the last request. Offsets and
\* concatenation are as stated.
C17_Pagination ==
    /\ OffsetsFollowReceived
    /\ Concatenated
    /\ [][PageStep => (TreatedAsLast <=> (PageCount # page_limit \/ test_mode))]_vars
    /\ [](fKind = "sessions" /\ fPhase = "returned" =>
            IF test_mode /\ halfDays # <<>>
            THEN wIdx = 1 /\ Len(sessions) <= page_limit
            ELSE wIdx = Len(halfDays) + 1)

C17_Witness ==
    /\ ~test_mode
    /\ fKind = "sessions"
    /\ fPhase = "returned"
    /\ <<1, page_limit + 1>> \in SeqToSet(sessions)
    /\ <<2, 1>> \in SeqToSet(sessions)

\* A step in which an attempt of the pending GET failed and is repeated
RetryStep == fPhase = "request" /\ attempt' # attempt /\ attempt' # 1

\* A step in which the error of the pending GET reaches the caller
RaiseStep == fPhase = "request" /\ fPhase' = "raised"

\* C18: a failing list or dictionary GET is attempted at most 10 times with
\* waits between 5 and 30 seconds, each retry repeats the same request, the
\* error is raised only after the 10th attempt, and the run then is FAILED
\* with no load entered and no checkpoint written.
C18_BoundedRetry ==
    /\ [](attempt \in 1..stop_after_attempt)
    /\ [](waited = 0 \/ (waited >= 5 /\ waited <= 30))
    /\ [][RetryStep =>
            /\ attempt < stop_after_attempt
            /\ attempt' = attempt + 1
            /\ waited' >= waited
            /\ UNCHANGED <<fKind, fPhase, wIdx, dictIdx, skip, page_number, sessions, stage>>]_vars
    /\ [][RaiseStep => attempt = stop_after_attempt]_vars
    /\ [](fPhase = "raised" =>
            /\ stage = "FAILED"
            /\ loadState = "none"
            /\ ckptWrites = 0
            /\ checkpoint = NoCheckpoint)
    /\ [][fPhase = "raised" => UNCHANGED vars]_vars

C18_Witness ==
    /\ fPhase = "raised"
    /\ fKind = "sessions"
    /\ attempt = stop_after_attempt
    /\ waited = 30
    /\ wIdx = 2
    /\ Len(sessions) > page_limit

\* C19: a failing per-record detail fetch is attempted exactly once (the
\* retry policy is applied to the list fetch only, never to a detail GET
\* or a write).
C19_DetailFetchOnce == fKind = "details" => attempt = 1

\* The /scores pass has gone past record k, or has its request pending
ScoresDecided(k) ==
    \/ suffix = "/summary"
    \/ suffix = "/scores" /\ (k < sIdx \/ (k = sIdx /\ fPhase = "request"))

\* C20: with the required field "reviewers", a /scores request is issued
\* for a session if and only if its reviewers value is truthy; a session
\* with an empty reviewers list causes no /scores request and keeps its
\* empty scores placeholder.
C20_RequestIffTruthy ==
    /\ [](fKind = "details" =>
            \A k \in 1..Len(sessions) :
                /\ <<"/scores", sessions[k].id>> \in requested => sessions[k].reviewers # <<>>
                /\ ScoresDecided(k) =>
                      (<<"/scores", sessions[k].id>> \in requested <=> sessions[k].reviewers # <<>>)
                /\ sessions[k].reviewers = <<>> => sessions[k].scores = <<>>)
    /\ [][fKind = "details" /\ suffix = "/scores" /\ sIdx' = sIdx + 1 /\ fPhase = "loop" =>
            /\ sessions[sIdx].reviewers = <<>>
            /\ UNCHANGED <<requested, sessions>>]_vars
    /\ [][fKind = "details" /\ requested' # requested =>
            \E k \in 1..Len(sessions) :
                /\ k = sIdx
                /\ requested' = requested \cup {<<suffix, sessions[k].id>>}
                /\ ~(suffix = "/scores" /\ sessions[k].reviewers = <<>>)]_vars

C20_Witness ==
    /\ fKind = "details"
    /\ fPhase = "returned"
    /\ Len(sessions) = 2
    /\ sessions[1].reviewers = <<>>
    /\ sessions[1].scores = <<>>
    /\ sessions[2].reviewers # <<>>
    /\ sessions[2].scores # <<>>
    /\ <<"/scores", 1>> \notin requested
    /\ <<"/scores", 2>> \in requested

\* Identity of the records of a batch, in order
BatchIds(ss) == [k \in DOMAIN ss |-> <<ss[k].id, ss[k].reviewers>>]

\* A step in which a detail GET is given up for its record
GiveUpStep == fKind = "details" /\ logged' # logged

\* C21: giving up one record's detail fetch never aborts the batch: the
\* records stay the same in number and order, the failing record keeps its
\* placeholder, the loop goes on with the next record, and when the
\* enrichment returns every record has been processed.
C21_FailureKeepsBatch ==
    /\ [](fKind = "details" => stage # "FAILED" /\ fPhase # "raised")
    /\ [][fKind = "details" => BatchIds(sessions') = BatchIds(sessions)]_vars
    /\ [][GiveUpStep =>
            /\ sessions' = sessions
            /\ sessions[sIdx][KeyOfSuffix(suffix)] = <<>>
            /\ sIdx' = sIdx + 1
            /\ fPhase' = "loop"]_vars
    /\ [](fKind = "details" /\ fPhase = "returned" =>
            \A k \in 1..Len(sessions) :
                /\ <<"/summary", sessions[k].id>> \in requested
                /\ sessions[k].reviewers # <<>> => <<"/scores", sessions[k].id>> \in requested
                /\ sessions[k].scores = <<>> <=>
                      (sessions[k].reviewers = <<>> \/ <<"/scores", sessions[k].id>> \in logged)
                /\ sessions[k].summary = <<>> <=> <<"/summary", sessions[k].id>> \in logged)

C21_Witness ==
    /\ fKind = "details"
    /\ fPhase = "returned"
    /\ Len(sessions) = 2
    /\ logged = {<<"/scores", 1>>}
    /\ sessions[1].scores = <<>>
    /\ sessions[2].scores # <<>>
    /\ sessions[1].summary # <<>>

\* The column was parsed without an exception
Parsed == tStep = "parsed" /\ tOut.err = "none"

\* C22: normalization truncates to whole seconds: every in-range timestamp
\* becomes the input with its fraction removed, never a later second.
C22_TruncatesToSeconds ==
    Parsed => \A k \in DOMAIN tIn :
                 tIn[k].kind = "ts" => tOut.vals[k] = Instant(tIn[k].ticks \div TicksPerSecond)

\* The values of the parsed column that are no in-range timestamp and not None
Offending == {k \in DOMAIN tIn : tIn[k].kind \in {"oob", "bad"}}

\* C23: an out-of-range value gets the default only in the agent-group
\* association start date; an out-of-range or unparseable value in any
\* other timestamp column fails the run, except in sessions.start_dt when
\* the leading YYYY-MM-DDTHH:MM:SS part of the value is a valid instant.
C23_TimestampFallbacks ==
    tStep = "parsed" =>
        /\ stage = "FAILED" <=> tOut.err # "none"
        /\ tCol = "agent_group_associations.start_dt" =>
              /\ tOut.err = "none" <=> \A k \in Offending : tIn[k].kind = "oob"
              /\ Parsed => \A k \in Offending : tOut.vals[k] = DefaultStart
        /\ tCol = "sessions.start_dt" =>
              /\ tOut.err = "none" <=> \A k \in Offending : tIn[k].kind = "bad" /\ tIn[k].lead = "ts"
              /\ Parsed => \A k \in Offending : tOut.vals[k] = Instant(tIn[k].ticks \div TicksPerSecond)
        /\ tCol \notin {"agent_group_associations.start_dt", "sessions.start_dt"} =>
              /\ tOut.err = "none" <=> Offending = {}
        /\ Parsed => \A k \in DOMAIN tIn : tOut.vals[k] = DefaultStart =>
                        tCol = "agent_group_associations.start_dt" /\ tIn[k].kind = "oob"

\* The points of the fetched scorecards, in order
InputPoints == Concat([s \in DOMAIN nIn.data |->
                   Concat([j \in DOMAIN nIn.data[s].categories |-> nIn.data[s].categories[j].points])])

\* The categories of the fetched scorecards, in order
InputCategories == Concat([s \in DOMAIN nIn.data |-> nIn.data[s].categories])

\* transform_base_dicts returned
Flattened == tStep = "parsed" /\ nIn.kind = "dicts" /\ nOut.err = "none"

\* C24: every exploded row carries the id of its parent under <parent>_id,
\* and a row of a two-level explosion both back-references, whether or not
\* the child records hold those fields: one row for each category and each
\* point, with the scorecard_id (and category_id) of its own ancestors.
C24_ParentLinkage ==
    Flattened =>
        /\ Len(nOut.tables.scorecard_categories) = Len(InputCategories)
        /\ \A k \in DOMAIN InputCategories :
              LET row == nOut.tables.scorecard_categories[k]
              IN  /\ row.id = InputCategories[k].id
                  /\ "scorecard_id" \in DOMAIN row
                  /\ row.scorecard_id = row.id \div 10
        /\ Len(nOut.tables.scorecard_points) = Len(InputPoints)
        /\ \A k \in DOMAIN InputPoints :
              LET row == nOut.tables.scorecard_points[k]
              IN  /\ row.id = InputPoints[k].id
                  /\ {"scorecard_id", "category_id"} \subseteq DOMAIN row
                  /\ row.category_id = row.id \div 10
                  /\ row.scorecard_id = row.id \div 100

Known(data) ==
    [t \in (DOMAIN data) \cap TableSet |->
        [k \in DOMAIN data[t] |-> Restrict(data[t][k], get_columns(t))]]

\* C26: a row-set without a table and a field without a column never block
\* a load: a row is written exactly as it would be without its unknown
\* fields, a row fails only if it fails without them, and a committed load
\* leaves what loading the known tables and columns alone leaves.
C26_DriftNeverBlocks ==
    /\ []("compile" \notin errs)
    /\ [][RowApplied =>
            LET ref == UpsertRow(dialect, CurTable, tx[CurTable],
                                 Restrict(CurItem, get_columns(CurTable)))
            IN  ref.err = "none" /\ tx' = [tx EXCEPT ![CurTable] = ref.rows]]_vars
    /\ [][AtRow /\ loadState' = "exit" /\ errs' # {"operational"} =>
            UpsertRow(dialect, CurTable, tx[CurTable],
                      Restrict(CurItem, get_columns(CurTable))).err # "none"]_vars
    /\ [](loadState = "returned" /\ loadCommitted =>
            LET all == ApplyTables(dialect, preStore, Known(etData), 1)
            IN  all.ok /\ store = all.db)

C26_Witness ==
    /\ loadState = "returned"
    /\ loadCommitted
    /\ "new_entity" \in DOMAIN etData
    /\ \E k \in DOMAIN etData["categories"] : "color" \in DOMAIN etData["categories"][k]
    /\ Len(etData["sessions_summaries"]) = 1
    /\ \E r \in store["categories"] : r["id"] = 2 /\ r["name"] = 2
    /\ \E r \in store["sessions_summaries"] : r["session_id"] = 1 /\ r["text"] = 1

\* The key values stored in table t
StoredKeys(db, t) == {KeyOf(t, r) : r \in db[t]}

\* The fetch holds an item with the key of stored row r
InFetch(data, t, r) ==
    /\ t \in DOMAIN data
    /\ \E k \in DOMAIN data[t] :
          \A c \in KeyCols(t) : c \in DOMAIN data[t][k] /\ data[t][k][c] = r[c]

\* C27: upsert never deletes: over any sequence of loads the key values
\* stored in each table only grow, and a stored row whose key is not in the
\* current fetch keeps every field value.
C27_NeverDeletes ==
    /\ [][\A t \in TableSet : StoredKeys(store, t) \subseteq StoredKeys(store', t)]_vars
    /\ [][\A t \in TableSet : \A r \in store[t] : ~InFetch(etData, t, r) => r \in store'[t]]_vars
    /\ [](LoadEnded => \A t \in TableSet : \A r \in preStore[t] :
                          ~InFetch(etData, t, r) => r \in store[t])

C27_Witness ==
    /\ nLoads = 2
    /\ loadState = "returned"
    /\ loadCommitted
    /\ store # preStore
    /\ \E t \in TableSet : \E r \in preStore[t] : ~InFetch(etData, t, r) /\ r \in store[t]
    /\ \E t \in TableSet : \E r \in preStore[t] : InFetch(etData, t, r) /\ r \notin store[t]

\* The arguments of the run that starts in this step are malformed
MalformedStart ==
    /\ nRuns' = nRuns + 1
    /\ (Truthy(startDt') /\ str2dt(startDt') = SystemExit) \/ "bad_date" \in errs'

\* C28: a malformed start or stop date ends the run with a non-zero exit
\* before any request, any store write and any read or write of the
\* checkpoint.
C28_MalformedDateExitsFirst ==
    /\ [][MalformedStart =>
             /\ stage' = "FAILED"
             /\ calls' = <<>>
             /\ store' = store /\ tx' = tx
             /\ checkpoint' = checkpoint
             /\ lastSynced' = lastSynced
             /\ ckptWrites' = 0]_vars
    /\ []("bad_date" \in errs =>
             /\ stage = "FAILED"
             /\ calls = <<>>
             /\ store = runStore
             /\ loadState = "none"
             /\ ckptWrites = 0)

C28_Witness ==
    /\ "bad_date" \in errs
    /\ nRuns = 2
    /\ Truthy(startDt) /\ str2dt(startDt) = SystemExit
    /\ store # EmptyStore
    /\ lastSynced # file2dt(checkpoint)

\* C29: a run started with --test-mode makes no changes: no write to the
\* store and no change of the persisted checkpoint.
C29_TestModeChangesNothing ==
    [][test_mode => store' = store /\ checkpoint' = checkpoint]_vars

\* Run w's INSERT meets the key the other run has inserted
LosesRace(w) ==
    /\ writers[w].pc = "act"
    /\ ~writers[w].existing
    /\ <<RaceTable(w), RaceKey(w)>> \in writers[Other(w)].inserted

AllKeysSupplied(data) ==
    \A t \in DOMAIN data : \A i \in DOMAIN data[t] : KeyCols(t) \subseteq DOMAIN data[t][i]

\* C31: the two upsert strategies are equivalent: for rows that all supply
\* their key columns, the sqlite path and the mssql path end with the same
\* outcome and the same rows in every table.
C31_StrategiesEquivalent ==
    (loadState = "open" /\ AllKeysSupplied(etData)) =>
        ApplyTables("sqlite", preStore, etData, 1) = ApplyTables("mssql", preStore, etData, 1)

\* A row statement of the current load has failed
RowFailed == errs \cap {"integrity", "missing_key", "operational", "compile"} # {}

\* C32: after a per-row failure no further row of the table and no row of a
\* later table is attempted, and the run ends without starting a later stage.
C32_RowFailureStopsRun ==
    /\ [](RowFailed =>
             /\ loadState = "exit"
             /\ tblIdx <= Len(Tables)
             /\ tx = preStore /\ store = preStore
             /\ stage \in LoadingStages \cup {"FAILED"}
             /\ ckptWrites = 0)
    /\ [][(RowFailed /\ SameRun) =>
             /\ <<tblIdx', rowIdx', tx', store', etData', calls'>> = <<tblIdx, rowIdx, tx, store, etData, calls>>
             /\ stage' \in {stage, "FAILED"}]_vars
    /\ [][(~RowFailed /\ RowFailed') =>
             /\ AtRow
             /\ <<tblIdx', rowIdx'>> = <<tblIdx, rowIdx>>]_vars

C32_Witness ==
    /\ RowFailed
    /\ stage = "FAILED"
    /\ tblIdx <= Len(Tables)
    /\ \/ rowIdx < Len(etData[CurTable])
       \/ SkipFrom(etData, tblIdx + 1) <= Len(Tables)
    /\ "categories" \in DOMAIN etData

\* C33: no category update is lost to the incremental filter: a successful
\* daily run names every category whose updated_at is later than the moment
\* the most recent successful daily run before it fetched the dictionaries.
C33_NoCategoryUpdateLost ==
    (stage = "DONE" /\ daily /\ syncedAt.kind = "dt") =>
        \A i \in DOMAIN baseCats :
            baseCats[i]["updated_at"] > syncedAt.dt => baseCats[i]["id"] \in SeqToSet(calls[1])

\* Every table is declared after the tables it references
ForeignKeyOrder ==
    \A i \in DOMAIN DeclaredTables :
        \A u \in ForeignKeys(DeclaredTables[i]) : LoopPosition(u) < i

\* The row loop moves through the tables in declaration order
LoopInDeclaredOrder ==
    /\ \A i, j \in DOMAIN Tables : i < j => LoopPosition(Tables[i]) < LoopPosition(Tables[j])
    /\ [][(loadState = "open" /\ loadState' = "open") => tblIdx' >= tblIdx]_vars

\* The run leaves the dictionary stage for the session stages
SessionStagesStart == SameRun /\ stage = "LOADING_DICTS" /\ stage' \notin {"LOADING_DICTS", "FAILED"}

\* A row of a session table is written
SessionRowWritten == stage \in {"LOADING_SESSIONS", "LOADING_INCREMENTAL"} /\ tx' # tx /\ tx' # store'

\* C34: within a load every table comes after the tables it references by
\* foreign key, and the dictionary tables are loaded by the run before any
\* session row that references them.
C34_ReferencedTablesFirst ==
    /\ ForeignKeyOrder
    /\ LoopInDeclaredOrder
    /\ [][SessionStagesStart => (loadState = "returned" /\ loadCommitted)]_vars
    /\ [][SessionRowWritten => DictPart(tx') = DictPart(dictStore)]_vars

\* The records 1..n of window w, in order
WindowRecords(w, n) == [i \in 1..n |-> <<w, i>>]

RECURSIVE AllWindows(_, _)
AllWindows(k, n) == IF k = 0 THEN <<>> ELSE AllWindows(k - 1, n) \o WindowRecords(k, n)

StartAfterStop ==
    /\ fKind = "sessions"
    /\ stage \in {"FETCHING_SESSIONS", "DONE"}
    /\ ~DtLeq(splitOf[1], splitOf[2])

\* C36: a run whose explicit start date is later than its stop date is not
\* rejected: it has no window, issues no session request, skips transform
\* and load for the period, ends normally and writes the checkpoint.
C36_InvertedWindowAccepted ==
    /\ \A a, b \in {"2024-05-01", "2024-05-02", "2024-05-03"} :
          ~Exited(parse_start_stop_dates(a, b, TodayOf(0)))
    /\ [](StartAfterStop =>
             /\ halfDays = <<>>
             /\ fPhase = "returned"
             /\ sessions = <<>>
             /\ attempt = 1
             /\ loadState = "none" /\ store = EmptyStore
             /\ errs = {})
    /\ [][(StartAfterStop /\ stage = "FETCHING_SESSIONS") =>
             /\ stage' = "DONE"
             /\ ckptWrites' = ckptWrites + 1
             /\ checkpoint'.kind = "dt"]_vars

C36_Witness ==
    /\ StartAfterStop
    /\ stage = "DONE"
    /\ ckptWrites = 1
    /\ checkpoint.kind = "dt"
    /\ sessions = <<>>

\* A run of SpecSink that ended successfully
SinkRunDone == stage = "DONE" /\ ckptWrites = 1

\* C37: for every load_to, a run that reaches DONE and writes the checkpoint
\* has delivered each et_data it gave to load to exactly one sink, the
\* warehouse or a file; and a run whose load_to names no supported
\* destination does not reach DONE
C37_OneSinkOrNoSuccess ==
    SinkRunDone =>
        /\ \A i \in DOMAIN sunk : Cardinality(sunk[i].sinks) = 1
        /\ load_to \in SupportedDestinations

\* The artifact of a run-family: sessions.json for data with a sessions
\* row-set, dicts.json for the rest
ArtifactOf(d) == IF "sessions" \in DOMAIN d THEN "sessions.json" ELSE "dicts.json"

\* A load call returned in this step
LoadReturned == Len(sunk') = Len(sunk) + 1

\* The et_data of the load call that returned in this step
LoadedData == sunk'[Len(sunk')].data

\* Positions of the session loads in the log of the run
SessionLoads == {i \in DOMAIN sunk : "sessions" \in DOMAIN sunk[i].data}

LastSessionLoad == sunk[SetMax(SessionLoads)].data

\* C38: with a file destination each load writes exactly one artifact, the
\* one of its run-family, replacing whatever the artifact held and leaving
\* the other artifact alone; so after a daily run sessions.json holds exactly
\* the et_data of the last session load of the run, not the union of the
\* period and incremental loads
C38_OneArtifactTruncated ==
    /\ [][(LoadReturned /\ InFile(load_to)) =>
            /\ files'[ArtifactOf(LoadedData)] = json_dump(LoadedData)
            /\ DOMAIN files' = DOMAIN files \cup {ArtifactOf(LoadedData)}
            /\ \A n \in DOMAIN files \ {ArtifactOf(LoadedData)} : files'[n] = files[n]]_vars
    /\ []((SinkRunDone /\ daily /\ InFile(load_to) /\ SessionLoads # {}) =>
            files["sessions.json"] = json_dump(LastSessionLoad))

\* A daily run to files ended whose period load and incremental load differ:
\* sessions.json holds the later one only
C38_Witness ==
    /\ SinkRunDone /\ daily /\ load_to = "file"
    /\ Cardinality(SessionLoads) >= 2
    /\ \E i \in SessionLoads : sunk[i].data # LastSessionLoad
    /\ files["sessions.json"] = json_dump(LastSessionLoad)
    /\ "dicts.json" \in DOMAIN files

\* The dictionaries whose empty fetch the transform does not provide for
RequiredDicts == {"agents", "categories", "groups", "labels", "scorecards", "tags"}

\* The dictionaries of this run were fetched
DictsFetched == nIn.kind = "dicts"

\* One of the six was fetched empty
SomeRequiredEmpty == DictsFetched /\ \E n \in RequiredDicts : nIn.data[n] = <<>>

\* transform_base_dicts has been called on the fetch of this run
DictsTransformDone == DictsFetched /\ stage # "TRANSFORMING_DICTS"

\* C39: the dictionary stage provides for an empty fetch of users only.
\* When agents, categories, groups, labels, scorecards or tags is fetched
\* empty the transform raises, the run loads nothing, starts no session stage
\* and writes no checkpoint; when none of the six is empty the transform
\* returns, with or without users
C39_EmptyDictionaryStopsRun ==
    /\ SomeRequiredEmpty =>
          /\ stage \in {"TRANSFORMING_DICTS", "FAILED"}
          /\ store = EmptyStore /\ files = NoFiles /\ sunk = <<>>
          /\ checkpoint = NoCheckpoint /\ ckptWrites = 0
    /\ DictsTransformDone =>
          /\ SomeRequiredEmpty <=> nOut.err # "none"
          /\ SomeRequiredEmpty <=> stage = "FAILED"

\* Labels alone came back empty: the run failed with nothing loaded
C39_Witness ==
    /\ DictsFetched
    /\ {n \in BaseDictNames : nIn.data[n] = <<>>} = {"labels"}
    /\ stage = "FAILED"
    /\ nOut.err = "KeyError"
    /\ store = EmptyStore /\ files = NoFiles /\ checkpoint = NoCheckpoint

\* The transform returned the dictionaries of a fetch with users
UsersTransformed ==
    DictsFetched /\ stage \notin {"TRANSFORMING_DICTS", "FAILED"} /\ nIn.data["users"] # <<>>

FetchedUsers == nIn.data["users"]

TransformedUsers == nOut.tables["users"]

FetchedHasIdZero == \E i \in DOMAIN FetchedUsers : FetchedUsers[i]["id"] = 0

\* C40: when the fetched users list is not empty the transformed users hold
\* exactly one row with id 0; the default 'Ender Turing' user is appended
\* exactly when no fetched user has id 0, and every fetched row is still
\* there, in place and unchanged
C40_ExactlyOneDefaultUser ==
    UsersTransformed =>
        /\ Cardinality({i \in DOMAIN TransformedUsers : TransformedUsers[i]["id"] = 0}) = 1
        /\ Len(TransformedUsers) = Len(FetchedUsers) + (IF FetchedHasIdZero THEN 0 ELSE 1)
        /\ ~FetchedHasIdZero => TransformedUsers[Len(TransformedUsers)] = et_default_user
        /\ \A i \in DOMAIN FetchedUsers : TransformedUsers[i] = FetchedUsers[i]

\* Two users were fetched, none with id 0: the default user is the third row
C40_Witness ==
    /\ UsersTransformed
    /\ Len(FetchedUsers) = 2
    /\ ~FetchedHasIdZero
    /\ Len(TransformedUsers) = 3
    /\ TransformedUsers[3] = et_default_user

====
